---- MODULE Spec2Model ----
(***************************************************************************)
(* A model of pytype's abstract interpreter (pytype/vm.py) and of its      *)
(* value conversion engine (pytype/convert.py).                            *)
(*                                                                         *)
(* Part 1 models VirtualMachine.run_frame / run_instruction / make_frame  *)
(* over small code objects.  Part 2 models Converter.constant_to_value /  *)
(* constant_to_var over small sets of declarations.                       *)
(***************************************************************************)
EXTENDS Integers, Sequences, FiniteSets, TLC

VARIABLES
  codes,     \* code id -> f_code.order, a sequence of blocks of opcodes
  frames,    \* vm.frames, the call stack
  frame,     \* vm.frame: the code of the frame it refers to, 0 for None
  run_frame_calls, \* the run_frame calls in progress, outermost first
  nnodes,    \* number of CFG nodes created so far (program.NewCFGNode)
  raised,    \* the Python exception propagating out of the VM ("" if none)
  errorlog,  \* vm.errorlog: the diagnostics reported so far
  returned,  \* what the most recent run_frame call returned
  last,      \* what the most recent run_instruction call did
  parents,         \* declared class name -> names of its declared bases
  convert_cache,   \* Converter._convert_cache
  calls,           \* the constant_to_value calls in progress, innermost last
  request,         \* the conversion the converter's caller asked for
  history,         \* the conversions the converter's caller has seen finish
  nvalues,         \* number of abstract values constructed so far
  nobjs,           \* number of AsInstance wrapper objects constructed so far
  members,         \* class name -> attribute name -> what the method does
  binop,           \* the call_binary_operator call in progress
  attrload,        \* the load_attr call in progress
  getiter,         \* the _get_iter call in progress
  unpack,          \* the _unpack_sequence call in progress
  blockrun,        \* a frame state run through the block opcodes
  raising,         \* a frame state run through the opcodes that raise
  mkclass,         \* the make_class call in progress
  fncomment,       \* the _process_function_type_comment call in progress
  lateq,           \* run_program and its functions with late annotations
  callfn,          \* the call_function call in progress
  jumping,         \* a frame state run through a conditional jump
  yielding,        \* a frame run through YIELD_VALUE and RETURN_VALUE
  unknowns         \* the Unknown values the converter handed out

\* The variables of the virtual machine, the diagnostics apart.
vm_vars ==
  <<codes, frames, frame, run_frame_calls, nnodes, raised, returned, last>>

\* The variables of the converter, the diagnostics apart.
convert_vars ==
  <<parents, convert_cache, calls, request, history, nvalues, nobjs>>

\* The variables of the binary operator dispatch, the diagnostics apart.
operator_vars == <<members, binop>>

\* The variables of the attribute lookup, the diagnostics apart.
attribute_vars == <<attrload>>

\* The variables of the iteration protocol, the diagnostics apart.
iteration_vars == <<getiter>>

\* The variables of the unpacking of sequences.
unpack_vars == <<unpack>>

\* The variables of the block opcodes.
block_vars == <<blockrun>>

\* The variables of the opcodes that raise.
raise_vars == <<raising>>

\* The variables of the construction of classes, the diagnostics apart.
class_vars == <<mkclass>>

\* The variables of the function type comments, the diagnostics apart.
comment_vars == <<fncomment>>

\* The variables of the functions with late annotations.
queue_vars == <<lateq>>

\* The variables of call_function, the diagnostics apart.
call_vars == <<callfn>>

\* The variables of the conditional jumps.
jump_vars == <<jumping>>

\* The variables of YIELD_VALUE and RETURN_VALUE.
yield_vars == <<yielding>>

\* The variables of the creation of Unknown values.
unknown_vars == <<unknowns>>

\* The variables of the parts that follow call_function.
after_call_vars == <<jump_vars, yield_vars, unknown_vars>>

\* The variables of the parts that follow the construction of classes.
after_class_vars == <<comment_vars, queue_vars, call_vars, after_call_vars>>

\* The variables of these parts that the function type comments leave alone.
comment_others == <<queue_vars, call_vars, after_call_vars>>

\* The variables of these parts that run_program leaves alone.
queue_others == <<comment_vars, call_vars, after_call_vars>>

\* The variables of these parts that call_function leaves alone.
call_others == <<comment_vars, queue_vars, after_call_vars>>

\* The variables of the last parts that the conditional jumps leave alone.
jump_others == <<yield_vars, unknown_vars>>

\* ... that YIELD_VALUE and RETURN_VALUE leave alone.
yield_others == <<jump_vars, unknown_vars>>

\* ... that the creation of Unknown values leaves alone.
unknown_others == <<jump_vars, yield_vars>>

\* The variables of the parts from the binary operator dispatch to the
\* construction of classes.
upto_class_vars ==
  <<operator_vars, attribute_vars, iteration_vars, unpack_vars, block_vars,
    raise_vars, class_vars>>

\* The variables of the parts from the binary operator dispatch to
\* call_function.
upto_call_vars == <<upto_class_vars, comment_vars, queue_vars, call_vars>>

\* The variables of the parts that follow the block opcodes.
after_block_vars == <<raise_vars, class_vars, after_class_vars>>

\* The variables of the parts that follow the unpacking.
after_unpack_vars == <<block_vars, after_block_vars>>

\* The variables of the parts that follow the iteration protocol.
after_iteration_vars == <<unpack_vars, after_unpack_vars>>

\* The variables of the parts that follow the attribute lookup.
after_attribute_vars == <<iteration_vars, after_iteration_vars>>

\* The variables of the parts that follow the binary operator dispatch.
after_operator_vars == <<attribute_vars, after_attribute_vars>>

\* The variables of the parts that follow the frame machine and the converter.
later_vars == <<operator_vars, after_operator_vars>>

vars == <<vm_vars, errorlog, convert_vars, later_vars>>

(***************************************************************************)
(* Part 1: the frame / stack machine                                       *)
(***************************************************************************)

\* vm.root_cfg_node, the first CFG node of the program.
root_cfg_node == 1

\* Largest number of opcodes of the module's code object.
MaxOps == 4

\* The numbers of blocks a module's code object may have.
BlockCounts == {1, 2, 3}

\* The code objects of the analysed program; code 1 is the module body.
CodeIds == {1, 2}

Op(name, arg) == [name |-> name, arg |-> arg]

\* state.FrameState: (node, data_stack, block_stack, why); a Variable on the
\* data stack is represented by the set of the values of its bindings.
FrameState(node, data_stack, block_stack, why) ==
  [some |-> TRUE, node |-> node, data_stack |-> data_stack,
   block_stack |-> block_stack, why |-> why]

\* The absent entry of frame.states (frame.states.get(...) returning None).
NoState ==
  [some |-> FALSE, node |-> 0, data_stack |-> <<>>, block_stack |-> <<>>,
   why |-> ""]

\* FrameState.init(node, vm): empty stacks, no reason.
InitState(node) == FrameState(node, <<>>, <<>>, "")

set_why(state, why) == [state EXCEPT !.why = why]

push(state, var) == [state EXCEPT !.data_stack = Append(@, var)]

pop_and_discard(state) ==
  [state EXCEPT !.data_stack = SubSeq(@, 1, Len(@) - 1)]

top(state) == state.data_stack[Len(state.data_stack)]

change_cfg_node(state, node) == [state EXCEPT !.node = node]

\* state.forward_cfg_node(): the state moved to a node created by ConnectNew;
\* nn is the number of nodes before the call, so the new node is nn + 1.
forward_cfg_node(state, nn) == change_cfg_node(state, nn + 1)

\* The depth assertions of FrameState.merge_into.
MergeAsserts(self, other) ==
  \/ ~other.some
  \/ /\ Len(self.data_stack) = Len(other.data_stack)
     /\ Len(self.block_stack) = Len(other.block_stack)

\* state.merge_into(other): other is the state already recorded (or none).
\* The variables of the two data stacks are unioned position by position and
\* the incoming node is connected to the recorded state's node.
merge_into(self, other) ==
  IF ~other.some THEN self
  ELSE FrameState(other.node,
                  [i \in 1..Len(other.data_stack) |->
                     other.data_stack[i] \cup self.data_stack[i]],
                  self.block_stack, self.why)

\* The truth values a value is compatible with (compare.compatible_with): an
\* abstract instance may be true or false, None is always false.
CanBeTrue(v) == v \in {"int", "unsolvable"}

CanBeFalse(v) == v \in {"int", "unsolvable", "None"}

\* state.split_conditions restricted to one truth value: "unsat" when no
\* binding is compatible (UNSATISFIABLE), "none" when every binding is (no
\* condition needed), "cond" when only some are (a Condition on a binding).
RestrictCondition(var, value) ==
  LET ok == {v \in var : IF value THEN CanBeTrue(v) ELSE CanBeFalse(v)} IN
  IF ok = {} THEN "unsat" ELSE IF ok = var THEN "none" ELSE "cond"

\* Opcode.carry_on_to_next(): false for the opcodes flagged NO_NEXT.
carry_on_to_next(op) ==
  op.name \notin {"JUMP_ABSOLUTE", "RETURN_VALUE", "RAISE_VARARGS"}

\* What a bytecode handler did: the exception it raised ("" if none), the
\* state it returned, and frame.states, frame.return_variable and the number
\* of CFG nodes as it left them.
Outcome(exn, state, states, ret, nn) ==
  [exn |-> exn, state |-> state, states |-> states, ret |-> ret, nn |-> nn,
   sent |-> NoState]

\* The outcome of a handler that called store_jump with the state `sent`.
Jumped(out, sent) == [out EXCEPT !.sent = sent]


\* A store_jump that forgets the state already recorded at the target.
store_jump_overwrite(states, target, state) ==
  [states EXCEPT ![target] = state]

\* vm.store_jump(target, state), on the frame.states map it updates.
store_jump(states, target, state) ==
  [states EXCEPT ![target] = merge_into(state, states[target])]


\* A make_frame without the recursion test.
IsRecursiveNever(code) == FALSE

\* A make_frame that compares the code with the running frame's only.
IsRecursiveOfTopFrame(code) ==
  frames # <<>> /\ frames[Len(frames)].code = code

\* make_frame's recursion test: the code is that of a frame on the stack.
IsRecursive(code) == \E i \in 1..Len(frames) : frames[i].code = code

byte_LOAD_CONST(f, state, op, nn) ==
  Outcome("", push(state, {op.arg}), f.states, f.return_variable, nn)

byte_POP_TOP(f, state, op, nn) ==
  IF state.data_stack = <<>>
  THEN Outcome("IndexError", state, f.states, f.return_variable, nn)
  ELSE Outcome("", pop_and_discard(state), f.states, f.return_variable, nn)

byte_JUMP_ABSOLUTE(f, state, op, nn) ==
  LET fwd == forward_cfg_node(state, nn) IN
  IF ~MergeAsserts(fwd, f.states[op.arg])
  THEN Outcome("AssertionError", state, f.states, f.return_variable, nn + 1)
  ELSE Jumped(Outcome("", state, store_jump(f.states, op.arg, fwd),
                      f.return_variable, nn + 1), fwd)

\* _jump_if(state, op, pop, jump_if, or_pop)
jump_if(f, state0, op, nn, pop, jumpif, or_pop) ==
  IF state0.data_stack = <<>>
  THEN Outcome("IndexError", state0, f.states, f.return_variable, nn)
  ELSE
  LET value == top(state0)
      state == IF pop THEN pop_and_discard(state0) ELSE state0
      jump == RestrictCondition(value, jumpif)
      normal == RestrictCondition(value, ~jumpif)
      \* nodes created for the jump target: two when restricted by a
      \* condition, one when unconditional, none when unsatisfiable
      njump == IF jump = "unsat" THEN 0 ELSE IF jump = "cond" THEN 2 ELSE 1
      else_node == change_cfg_node(state, nn + njump)
      ok == jump = "unsat" \/ MergeAsserts(else_node, f.states[op.arg])
      states == IF jump = "unsat" THEN f.states
                ELSE store_jump(f.states, op.arg, else_node)
      state1 == IF or_pop THEN pop_and_discard(state) ELSE state
      sent == IF jump = "unsat" THEN NoState ELSE else_node
  IN
  IF ~ok
  THEN Outcome("AssertionError", state0, f.states, f.return_variable,
               nn + njump)
  ELSE IF normal = "unsat"
  THEN Jumped(Outcome("", set_why(state1, "unsatisfiable"), states,
                      f.return_variable, nn + njump), sent)
  ELSE IF jump = "unsat" /\ normal = "none"
  THEN Outcome("", state1, states, f.return_variable, nn + njump)
  ELSE Jumped(Outcome("", forward_cfg_node(state1, nn + njump), states,
                      f.return_variable, nn + njump + 1), sent)

byte_POP_JUMP_IF_FALSE(f, state, op, nn) ==
  jump_if(f, state, op, nn, TRUE, FALSE, FALSE)

byte_JUMP_IF_FALSE_OR_POP(f, state, op, nn) ==
  jump_if(f, state, op, nn, FALSE, FALSE, TRUE)

\* A JUMP_IF_TRUE_OR_POP that pops the value before it jumps.
byte_JUMP_IF_TRUE_OR_POP_popping(f, state, op, nn) ==
  jump_if(f, state, op, nn, TRUE, TRUE, FALSE)

byte_JUMP_IF_TRUE_OR_POP(f, state, op, nn) ==
  jump_if(f, state, op, nn, FALSE, TRUE, TRUE)

byte_JUMP_IF_TRUE(f, state, op, nn) ==
  jump_if(f, state, op, nn, FALSE, TRUE, FALSE)

byte_JUMP_IF_FALSE(f, state, op, nn) ==
  jump_if(f, state, op, nn, FALSE, FALSE, FALSE)

byte_POP_JUMP_IF_TRUE(f, state, op, nn) ==
  jump_if(f, state, op, nn, TRUE, TRUE, FALSE)

byte_RETURN_VALUE(f, state, op, nn) ==
  IF state.data_stack = <<>>
  THEN Outcome("IndexError", state, f.states, f.return_variable, nn)
  ELSE Outcome("", set_why(pop_and_discard(state), "return"), f.states,
               f.return_variable \cup top(state), nn)

\* byte_RAISE_VARARGS_PY2: a bare raise (argc 0) with no exception recorded in
\* the state raises ByteCodeTypeError; raise X (argc 1) pops X.
byte_RAISE_VARARGS(f, state, op, nn) ==
  IF op.arg = 0
  THEN Outcome("ByteCodeException", state, f.states, f.return_variable, nn)
  ELSE IF state.data_stack = <<>>
  THEN Outcome("IndexError", state, f.states, f.return_variable, nn)
  ELSE Outcome("", set_why(pop_and_discard(state), "exception"), f.states,
               f.return_variable, nn)

\* byte_CALL_FUNCTION when make_frame refuses the callee's code.
byte_CALL_FUNCTION_recursive(f, state, op, nn) ==
  Outcome("RecursionException", state, f.states, f.return_variable, nn)

\* The dispatch of run_instruction: getattr(self, "byte_" + op.name, None).
Dispatch(f, state, op, nn) ==
  CASE op.name = "LOAD_CONST" -> byte_LOAD_CONST(f, state, op, nn)
    [] op.name = "POP_TOP" -> byte_POP_TOP(f, state, op, nn)
    [] op.name = "JUMP_ABSOLUTE" -> byte_JUMP_ABSOLUTE(f, state, op, nn)
    [] op.name = "POP_JUMP_IF_FALSE" ->
         byte_POP_JUMP_IF_FALSE(f, state, op, nn)
    [] op.name = "JUMP_IF_FALSE_OR_POP" ->
         byte_JUMP_IF_FALSE_OR_POP(f, state, op, nn)
    [] op.name = "RETURN_VALUE" -> byte_RETURN_VALUE(f, state, op, nn)
    [] op.name = "RAISE_VARARGS" -> byte_RAISE_VARARGS(f, state, op, nn)
    [] op.name = "CALL_FUNCTION" ->
         byte_CALL_FUNCTION_recursive(f, state, op, nn)
    [] OTHER ->
         Outcome("VirtualMachineError", state, f.states, f.return_variable,
                 nn)


\* A run_instruction without the handler for ByteCodeException.
CaughtRecursionOnly(exn) == exn = "RecursionException"

\* The exceptions run_instruction catches.
Caught(exn) == exn \in {"RecursionException", "ByteCodeException"}

\* The state run_instruction returns for a handler's outcome, given the state
\* before the instruction; an exception that is not caught leaves none.
InstructionState(before, out) ==
  LET st == IF out.exn = "" THEN out.state
            ELSE IF out.exn = "RecursionException"
            THEN set_why(before, "recursion")
            ELSE set_why(before, "exception")
  IN IF st.why = "reraise" THEN set_why(st, "exception") ELSE st

\* state.Frame as run_frame first sees it: frame.states holds the initial
\* state at the first instruction, the return variable has no binding.  The
\* fields blk, ip and state are run_frame's position: the block of
\* f_code.order being processed, the instruction in it, and the local `state`.
\* ran and skipped record which blocks were interpreted and which skipped;
\* boundary and arrivals record what was registered where.
Frame(code, node) ==
  [code |-> code,
   entry |-> node,
   states |-> [b \in 1..Len(codes[code]) |->
                 IF b = 1 THEN InitState(node) ELSE NoState],
   blk |-> 1, ip |-> 1, state |-> NoState,
   return_nodes |-> <<>>,
   return_variable |-> {},
   ran |-> {}, skipped |-> {},
   boundary |-> [blk |-> 0, ended |-> 0, why |-> "", nodes |-> 0,
                 sent |-> NoState, prior |-> NoState, registered |-> NoState],
   arrivals |-> [b \in 1..Len(codes[code]) |->
                   IF b = 1 THEN <<InitState(node)>> ELSE <<>>]]

NumBlocks(f) == Len(codes[f.code])

CurBlock(f) == codes[f.code][f.blk]

CurOp(f) == CurBlock(f)[f.ip]

\* frame.states.get(block[0]) at the head of a block, the local state after.
CurState(f) == IF f.ip = 1 THEN f.states[f.blk] ELSE f.state

\* The record of the states that arrived at each block, in order of arrival.
NoteArrival(arrivals, target, st) ==
  [arrivals EXCEPT ![target] = Append(@, st)]

\* The arrivals after a handler ran: a jump handler that did not raise adds
\* the state it passed to store_jump.
JumpArrivals(f, op, out) ==
  IF out.exn = "" /\ out.sent.some
  THEN NoteArrival(f.arrivals, op.arg, out.sent)
  ELSE f.arrivals


\* A run_frame that falls through without starting a new CFG node.
BoundaryStateOnSameNode(state, nn) == state

\* The state run_frame starts the next block with after a block that ended
\* without a reason: state.forward_cfg_node().
BoundaryState(state, nn) == forward_cfg_node(state, nn)

\* frame.states[op.next] = state.merge_into(frame.states.get(op.next))
FallThrough(states, next, state, nn) ==
  [states EXCEPT ![next] = merge_into(BoundaryState(state, nn), @)]


\* A run_frame that interprets a block whether or not a state is recorded.
HasStateAlways(f) == TRUE

\* Whether a state is recorded for the first instruction of the frame's
\* current block (frame.states.get(block[0]) is not None).
HasState(f) == f.states[f.blk].some

\* A run_frame that goes on at the block an unconditional jump names.
block_at_jump_target(f) ==
  IF CurOp(f).name = "JUMP_ABSOLUTE" THEN CurOp(f).arg ELSE f.blk + 1

\* The block run_frame's loop takes after the frame's current one: the next
\* of frame.f_code.order, whatever the block's last instruction was.
block_after(f) == f.blk + 1

\* The body of run_frame's loop after run_instruction returned `st` for the
\* instruction at (f.blk, f.ip): go on in the block, or leave the block and
\* collect its node as a return point, or fall through to the next block.
\* Gives the frame, the number of nodes, and the AssertionError of a failed
\* merge.
AfterInstruction(f, st, states, ret, arrivals, nn) ==
  LET op == CurOp(f)
      g == [f EXCEPT !.states = states, !.return_variable = ret,
                     !.arrivals = arrivals, !.ran = @ \cup {f.blk}]
      next == f.blk + 1
      prior == IF next > NumBlocks(f) THEN NoState ELSE states[next]
      leave == [g EXCEPT !.blk = block_after(f), !.ip = 1, !.state = NoState]
      note == [blk |-> f.blk, ended |-> st.node, why |-> st.why,
               nodes |-> nn, sent |-> NoState, prior |-> prior,
               registered |-> prior]
  IN
  IF st.why # ""
  THEN [exn |-> "", nn |-> nn,
        f |-> [leave EXCEPT !.return_nodes = Append(@, st.node),
                            !.boundary = note]]
  ELSE IF f.ip < Len(CurBlock(f))
  THEN [exn |-> "", nn |-> nn,
        f |-> [g EXCEPT !.ip = f.ip + 1, !.state = st]]
  ELSE IF ~carry_on_to_next(op)
  THEN [exn |-> "", nn |-> nn, f |-> leave]
  ELSE IF next > NumBlocks(f)
  THEN \* op.next is None: the state is stored under a key no block has
       [exn |-> "", nn |-> nn + 1, f |-> leave]
  ELSE IF ~MergeAsserts(BoundaryState(st, nn), prior)
  THEN [exn |-> "AssertionError", nn |-> nn + 1, f |-> g]
  ELSE [exn |-> "", nn |-> nn + 1,
        f |-> [leave EXCEPT
                 !.states = FallThrough(states, next, st, nn),
                 !.arrivals = NoteArrival(arrivals, next,
                                          BoundaryState(st, nn)),
                 !.boundary =
                   [note EXCEPT
                      !.sent = BoundaryState(st, nn),
                      !.registered =
                        FallThrough(states, next, st, nn)[next]]]]

Top == frames[Len(frames)]

\* vm.push_frame(frame): the call stack and vm.frame afterwards.
push_frame(fs, f) == [frames |-> Append(fs, f), frame |-> f.code]

\* A pop_frame that leaves vm.frame as it is.
pop_frame_keeping_frame(fs, code, current) ==
  [frames |-> SubSeq(fs, 1, Len(fs) - 1),
   frame |-> current,
   asserts |-> fs[Len(fs)].code = code]

\* vm.pop_frame(frame) for the frame of the given code, vm.frame being
\* `current`: the call stack and vm.frame afterwards, and whether the
\* assertion popped_frame == frame holds.
pop_frame(fs, code, current) ==
  LET rest == SubSeq(fs, 1, Len(fs) - 1) IN
  [frames |-> rest,
   frame |-> IF rest # <<>> THEN rest[Len(rest)].code ELSE 0,
   asserts |-> fs[Len(fs)].code = code]

\* The ways a frame that make_frame created reaches run_frame: directly from
\* the caller of make_frame, or through resume_frame for the frame of a
\* generator.
EntryPoints == {"run_frame", "resume_frame"}

\* vm.resume_frame(node, frame): run_frame for the frame as it is, whatever
\* the call stack holds.
resume_frame(fs, f) == push_frame(fs, f)

\* A run_frame call in progress: the frame it was given, the codes of the
\* frames that were on the call stack when it was called, and where it was
\* called from.
RunFrameCall(f, fs, via) ==
  [frame |-> f.code, before |-> [i \in 1..Len(fs) |-> fs[i].code],
   via |-> via]

\* The run_frame call whose loop is running.
ThisCall == run_frame_calls[Len(run_frame_calls)]

\* The run_frame calls in progress but the innermost.
OuterCalls == SubSeq(run_frame_calls, 1, Len(run_frame_calls) - 1)

SetTop(f) == [frames EXCEPT ![Len(frames)] = f]

Running == raised = "" /\ frames # <<>>

\* run_bytecode for the module's code: make_frame, then run_frame up to its
\* loop (push_frame, the initial state).
RunBytecode ==
  /\ UNCHANGED <<convert_vars, later_vars>>
  /\ raised = "" /\ frames = <<>> /\ returned.code = 0
  /\ frames' = push_frame(frames, Frame(1, root_cfg_node)).frames
  /\ frame' = push_frame(frames, Frame(1, root_cfg_node)).frame
  /\ run_frame_calls' =
       Append(run_frame_calls,
              RunFrameCall(Frame(1, root_cfg_node), frames, "run_frame"))
  /\ UNCHANGED <<codes, nnodes, raised, errorlog, returned, last>>

\* run_frame finds no state recorded for the block's first instruction.
SkipBlock ==
  /\ UNCHANGED <<convert_vars, later_vars>>
  /\ Running
  /\ Top.blk <= NumBlocks(Top) /\ Top.ip = 1
  /\ ~HasState(Top)
  /\ frames' = SetTop([Top EXCEPT !.blk = @ + 1, !.skipped = @ \cup {Top.blk}])
  /\ UNCHANGED <<codes, frame, run_frame_calls, nnodes, raised, errorlog,
                 returned, last>>

\* Whether the instruction is a call whose make_frame succeeds.
EntersFrame(op) == op.name = "CALL_FUNCTION" /\ ~IsRecursive(op.arg)

\* run_instruction for every opcode but a call that enters a frame, followed
\* by the rest of run_frame's loop body.
RunInstruction ==
  /\ UNCHANGED <<convert_vars, later_vars>>
  /\ Running
  /\ Top.blk <= NumBlocks(Top)
  /\ Top.ip > 1 \/ HasState(Top)
  /\ ~EntersFrame(CurOp(Top))
  /\ LET f == Top
         op == CurOp(f)
         before == CurState(f)
         out == Dispatch(f, before, op, nnodes)
     IN
     IF out.exn # "" /\ ~Caught(out.exn)
     THEN /\ raised' = out.exn
          /\ nnodes' = out.nn
          /\ last' = [op |-> op, exn |-> out.exn, why |-> "", escaped |-> TRUE,
                      before |-> before, stack |-> [i \in 1..Len(frames) |-> frames[i].code]]
          /\ run_frame_calls' = <<>>
          /\ UNCHANGED <<codes, frames, frame, errorlog, returned>>
     ELSE LET st == InstructionState(before, out)
              after == AfterInstruction(f, st, out.states, out.ret,
                                        JumpArrivals(f, op, out),
                                        out.nn)
          IN /\ frames' = SetTop(after.f)
             /\ run_frame_calls' =
                  IF after.exn = "" THEN run_frame_calls ELSE <<>>
             /\ nnodes' = after.nn
             /\ raised' = after.exn
             /\ last' = [op |-> op, exn |-> out.exn, why |-> st.why,
                         escaped |-> FALSE, before |-> before,
                         stack |-> [i \in 1..Len(frames) |-> frames[i].code]]
             /\ UNCHANGED <<codes, frame, errorlog, returned>>

\* A call whose make_frame succeeds: the handler is suspended in run_frame of
\* the callee's frame (push_frame, the initial state at the caller's node).
\* The frame of a generator function is handed to a Generator, which enters it
\* through resume_frame before anything else runs.
EnterFrame ==
  /\ UNCHANGED <<convert_vars, later_vars>>
  /\ Running
  /\ Top.blk <= NumBlocks(Top)
  /\ Top.ip > 1 \/ HasState(Top)
  /\ EntersFrame(CurOp(Top))
  /\ LET suspended == SetTop([Top EXCEPT !.state = CurState(Top)])
         callee == Frame(CurOp(Top).arg, CurState(Top).node)
     IN \E via \in EntryPoints :
          LET pushed == IF via = "resume_frame"
                        THEN resume_frame(suspended, callee)
                        ELSE push_frame(suspended, callee)
          IN /\ frames' = pushed.frames
             /\ frame' = pushed.frame
             /\ run_frame_calls' =
                  Append(run_frame_calls, RunFrameCall(callee, frames, via))
  /\ UNCHANGED <<codes, nnodes, raised, errorlog, returned, last>>

\* vm.join_cfg_nodes(nodes): the node itself when there is one, else a new
\* node all of them are connected to.
join_cfg_nodes(nodes, nn) == IF Len(nodes) = 1 THEN nodes[1] ELSE nn + 1

\* The end of run_frame: pop_frame, the wildcard binding when no return point
\* was collected, the join of the return points.  When the frame was entered
\* from a call, call_function gives an empty result the unsolvable binding, the
\* caller's handler pushes the result, and the caller's run_instruction and
\* loop body finish.
FinishFrame ==
  /\ UNCHANGED <<convert_vars, later_vars>>
  /\ Running
  /\ Top.blk > NumBlocks(Top)
  /\ LET f == Top
         popped == pop_frame(frames, ThisCall.frame, frame)
         rest == popped.frames
         noret == f.return_nodes = <<>>
         ret == IF noret THEN {"unsolvable"} ELSE f.return_variable
         node == IF noret THEN f.entry ELSE join_cfg_nodes(f.return_nodes, nnodes)
         nn == IF node > nnodes THEN nnodes + 1 ELSE nnodes
         ret_record == [code |-> f.code, node |-> node, return_variable |-> ret,
                        return_nodes |-> f.return_nodes,
                        depth |-> Len(frames)]
     IN
     IF ~popped.asserts \/ (noret /\ f.return_variable # {})
     THEN /\ raised' = "AssertionError"
          /\ frames' = rest
          /\ frame' = popped.frame
          /\ run_frame_calls' = <<>>
          /\ UNCHANGED <<codes, nnodes, errorlog, returned, last>>
     ELSE IF rest = <<>>
     THEN /\ frames' = rest
          /\ frame' = popped.frame
          /\ run_frame_calls' = OuterCalls
          /\ nnodes' = nn
          /\ returned' = ret_record
          /\ UNCHANGED <<codes, raised, errorlog, last>>
     ELSE LET c == rest[Len(rest)]
              before == c.state
              result == IF ret = {} THEN {"unsolvable"} ELSE ret
              out == Outcome("", push(change_cfg_node(before, node), result),
                             c.states, c.return_variable, nn)
              st == InstructionState(before, out)
              after == AfterInstruction(c, st, out.states, out.ret,
                                        c.arrivals, out.nn)
          IN /\ frames' = [rest EXCEPT ![Len(rest)] = after.f]
             /\ frame' = popped.frame
             /\ run_frame_calls' =
                  IF after.exn = "" THEN OuterCalls ELSE <<>>
             /\ nnodes' = after.nn
             /\ raised' = after.exn
             /\ returned' = ret_record
             /\ last' = [op |-> CurOp(c), exn |-> "", why |-> st.why,
                         escaped |-> FALSE, before |-> before,
                         stack |-> [i \in 1..Len(rest) |-> rest[i].code]]
             /\ UNCHANGED <<codes, errorlog>>

\* The opcodes of the analysed programs.
Pushers == {Op("LOAD_CONST", "int"), Op("LOAD_CONST", "None")}

Jumps(nb) ==
  {Op("POP_JUMP_IF_FALSE", t) : t \in 1..nb}
    \cup {Op("JUMP_IF_FALSE_OR_POP", t) : t \in 1..nb}

Consumers(nb) ==
  {Op("POP_TOP", 0), Op("RETURN_VALUE", 0), Op("RAISE_VARARGS", 1)}
    \cup Jumps(nb)

Others(nb) ==
  {Op("NOP", 0), Op("RAISE_VARARGS", 0)}
    \cup {Op("CALL_FUNCTION", c) : c \in CodeIds}
    \cup {Op("JUMP_ABSOLUTE", t) : t \in 1..nb}

\* The blocks of a code object of nb blocks: one opcode, or a constant load
\* followed by the return or the conditional jump that uses it.
Blocks(nb) ==
  {<<a>> : a \in Pushers \cup Consumers(nb) \cup Others(nb)}
    \cup {<<a, b>> : a \in Pushers, b \in {Op("RETURN_VALUE", 0)} \cup Jumps(nb)}

Calls(code, c) ==
  \E b \in 1..Len(code) : \E i \in 1..Len(code[b]) :
    code[b][i] = Op("CALL_FUNCTION", c)

RECURSIVE NumOps(_)
NumOps(code) ==
  IF code = <<>> THEN 0 ELSE Len(Head(code)) + NumOps(Tail(code))

\* The module bodies analysed: up to three blocks, MaxOps opcodes in all.
ModulePrograms ==
  {p \in UNION {[1..nb -> Blocks(nb)] : nb \in BlockCounts} :
     NumOps(p) <= MaxOps}

\* The functions the module may call: one block.
FunctionPrograms ==
  {<<b>> : b \in {<<a>> : a \in Others(1)}
                   \cup {<<a, Op("RETURN_VALUE", 0)>> : a \in Pushers}}

(***************************************************************************)
(* Part 2: the conversion engine                                           *)
(***************************************************************************)

\* Largest number of conversions the converter's caller asks for.
MaxCalls == 2

\* convert.MAX_IMPORT_DEPTH
MAX_IMPORT_DEPTH == 12

\* The CFG nodes a conversion may be asked for at.
Nodes == {root_cfg_node, 2, 3}

\* A constant to convert.  kind "literal": the Python constant called name;
\* "Class", "ClassType", "TypeParameter": the pytd node of that name;
\* "AsInstance": the abstract.AsInstance wrapper object number obj whose cls is
\* the declared type called name.
Py(kind, name, obj) == [kind |-> kind, name |-> name, obj |-> obj]

\* The declared classes; A and B are the classes of the analysed program.
ClassNames == {"A", "B", "C", "NoneType", "list"}

\* The declared generic types: type[T], list[T] and the tuple type
\* Tuple[NoneType].
TypeOfT == "type[T]"

ListOfT == "list[T]"

TupleOfNone == "tuple[NoneType]"

\* The declared fixed-arity tuples Tuple[A] and Tuple[A, B], the declared
\* callables Callable[[], A] and Callable[[A, B], NoneType], and the generic
\* class C, whose template is (K, V), given one and two parameters.
TupleOfA == "tuple[A]"

TupleOfAB == "tuple[A, B]"

CallableOfNothing == "Callable[[], A]"

CallableOfAB == "Callable[[A, B], NoneType]"

GenericOfA == "C[A]"

GenericOfAB == "C[A, B]"

\* isinstance(pyval, pytd.TupleType) and isinstance(pyval, pytd.CallableType)
TupleTypes == {TupleOfNone, TupleOfA, TupleOfAB}

CallableTypes == {CallableOfNothing, CallableOfAB}

\* pyval.base_type.cls of a declared generic, by the name of the class.
base_type(g) ==
  IF g \in TupleTypes THEN "tuple"
  ELSE IF g \in CallableTypes THEN "Callable"
  ELSE "C"

\* pyval.parameters of a declared generic (pyval.args of a callable), by the
\* names of the declared classes.
parameters(g) ==
  CASE g = TupleOfNone -> <<"NoneType">>
    [] g \in {TupleOfA, GenericOfA} -> <<"A">>
    [] g \in {TupleOfAB, GenericOfAB, CallableOfAB} -> <<"A", "B">>
    [] OTHER -> <<>>

\* pyval.ret of a declared callable.
callable_ret(g) == IF g = CallableOfAB THEN "NoneType" ELSE "A"

\* The names of cls.template of a declared class.
template(cls) ==
  IF cls = "C" THEN <<"K", "V">>
  ELSE IF cls \in {"list", "tuple"} THEN <<"T">>
  ELSE <<>>

\* The substitutions a conversion may be given: the set of the type parameter
\* names that have an entry.
Substs(pyval) ==
  IF pyval.kind = "AsInstance" /\ pyval.name \in {"T", TypeOfT, ListOfT}
  THEN {{}, {"T"}}
  ELSE {{}}

\* The constants the converter's caller converts.
Inputs ==
  {Py("literal", n, 0) : n \in {"None", "True", "1", "13"}}
    \cup {Py("Class", "A", 0)}
    \cup {Py("AsInstance", n, 1) :
            n \in {"NoneType", "A", "T", TypeOfT, ListOfT, TupleOfNone}}

\* The integer constants: ints, the two bools and the longs of Python 2.
IntLiterals == {"-2", "-1", "1", "12", "13"}

BoolLiterals == {"True", "False"}

LongLiterals == {"5L", "2**64"}

\* isinstance(pyval, int), which holds of a bool too and not of a long.
IsInt(pyval) ==
  pyval.kind = "literal" /\ pyval.name \in IntLiterals \cup BoolLiterals

\* The integer an int or a bool is equal to (True == 1, False == 0).
IntValue(pyval) ==
  CASE pyval.name = "-2" -> -2
    [] pyval.name = "-1" -> -1
    [] pyval.name = "12" -> 12
    [] pyval.name = "13" -> 13
    [] pyval.name = "False" -> 0
    [] OTHER -> 1

\* type(pyval)
TypeOf(pyval) ==
  IF pyval.kind # "literal" THEN pyval.kind
  ELSE IF pyval.name = "None" THEN "NoneType"
  ELSE IF pyval.name \in BoolLiterals THEN "bool"
  ELSE IF pyval.name \in LongLiterals THEN "long"
  ELSE "int"

\* A key that leaves out the type of the constant.
ConstantKeyWithoutType(pyval) ==
  [kind |-> "constant",
   pyval |-> IF IsInt(pyval) THEN Py("int", "", IntValue(pyval)) ELSE pyval,
   type |-> ""]

\* The key ("constant", pyval, type(pyval)) of constant_to_value.  Python
\* compares the members of a key with ==, so True and 1 differ only in the
\* type; a pytd node is compared by its contents and an AsInstance wrapper by
\* its identity.  A long of the model is equal to no int or bool of the
\* model, and its key differs from theirs in the type in any case.
ConstantKey(pyval) ==
  [kind |-> "constant",
   pyval |-> IF IsInt(pyval) THEN Py("int", "", IntValue(pyval)) ELSE pyval,
   type |-> TypeOf(pyval)]

\* The key (abstract.Instance, cls) of the instance of a declared class.
InstanceKey(name) ==
  [kind |-> "Instance", pyval |-> Py("Class", name, 0), type |-> ""]

\* An abstract value: the tag is its Python class, id its identity.
Value(tag, pyval, cls, id) ==
  [tag |-> tag, pyval |-> pyval, cls |-> cls, id |-> id]

\* The None that constant_to_value stores at a key while it converts it.
InProgress == Value("None", "", "", 0)

\* The values Converter.__init__ constructs.
unsolvable == Value("Unsolvable", "", "", 1)

none == Value("AbstractOrConcreteValue", "None", "NoneType", 2)

true == Value("AbstractOrConcreteValue", "True", "bool", 3)

false == Value("AbstractOrConcreteValue", "False", "bool", 4)


\* A Converter.__init__ that gives NoneType an instance of its own, like any
\* other primitive class.
primitive_class_instances_without_none(cls) ==
  IF cls = "NoneType" THEN Value("Instance", "", "NoneType", 0)
  ELSE IF cls = "bool" THEN Value("Instance", "", "bool", 5)
  ELSE Value("Instance", "", "int", 6)

primitive_class_instances(cls) ==
  IF cls = "NoneType" THEN none
  ELSE IF cls = "bool" THEN Value("Instance", "", "bool", 5)
  ELSE Value("Instance", "", "int", 6)

none_type == Value("PyTDClass", "NoneType", "", 7)

list_type == Value("PyTDClass", "list", "", 8)

tuple_type == Value("PyTDClass", "tuple", "", 9)

\* Converter.function_type, the class typing.Callable.
function_type == Value("PyTDClass", "Callable", "", 10)

\* Converter.nothing, the value of the empty type.
convert_nothing == Value("Nothing", "", "", 11)

\* The ValueError of build_bool.
ValueError == Value("ValueError", "", "", 0)

\* A build_bool that gives the abstract bool for every argument.
build_bool_abstract(value) == primitive_class_instances("bool")

\* Converter.build_bool(node, value), by the value of its one binding; value
\* is a literal, compared with `is`.
build_bool(value) ==
  IF value = "None" THEN primitive_class_instances("bool")
  ELSE IF value = "True" THEN true
  ELSE IF value = "False" THEN false
  ELSE ValueError

\* The binding of T in a substitution that has one: an instance of int.
SubstData == primitive_class_instances("int")

\* value.to_variable(node)
to_variable(value, node) == [bindings |-> {value}, node |-> node]

build_none(node) == to_variable(none, node)

\* self._convert_cache[key] = value
set_item(cache, key, value) ==
  [k \in DOMAIN cache \cup {key} |-> IF k = key THEN value ELSE cache[k]]


\* A constant_to_value without the test for a conversion in progress.
IsInProgressNever(cache, key) == FALSE

\* The test of constant_to_value for a conversion of the key in progress.
IsInProgress(cache, key) == key \in DOMAIN cache /\ cache[key] = InProgress


\* A constant_to_value that stores every value it constructed.
ShouldCacheAlways(need_node, node) == TRUE

\* The test of constant_to_value for storing the value it constructed.
ShouldCache(need_node, node) == ~need_node \/ node = root_cfg_node

\* The linearization of a class value: that of a class the converter built
\* from a declaration, the class alone for a class of Converter.__init__, and
\* nothing for a value that is no class (the unsolvable value).
MroOf(value) ==
  IF value.tag # "PyTDClass" THEN <<>>
  ELSE IF "mro" \in DOMAIN value THEN value.mro
  ELSE <<value.pyval>>

\* The merge of linearizations (C3): the first head that is in the tail of
\* no sequence comes next; MROError when there is none.  seqs are the
\* sequences left when the merge fails.
RECURSIVE MROMerge(_)
MROMerge(seqs) ==
  LET left == SelectSeq(seqs, LAMBDA q : q # <<>>)
      good == {i \in 1..Len(left) :
                 \A j \in 1..Len(left) :
                   \A k \in 2..Len(left[j]) : left[j][k] # left[i][1]}
  IN
  IF left = <<>> THEN [ok |-> TRUE, mro |-> <<>>, seqs |-> <<>>]
  ELSE IF good = {} THEN [ok |-> FALSE, mro |-> <<>>, seqs |-> left]
  ELSE LET i == CHOOSE i \in good : \A j \in good : i <= j
           c == left[i][1]
           rest == MROMerge([k \in 1..Len(left) |->
                               IF left[k][1] = c THEN Tail(left[k])
                               ELSE left[k]])
       IN [ok |-> rest.ok, mro |-> <<c>> \o rest.mro, seqs |-> rest.seqs]

\* The linearization of a class of the given name and base values: the class,
\* then the merge of the linearizations of its bases and of the list of the
\* bases.
compute_mro(name, bases) ==
  LET direct == SelectSeq(bases, LAMBDA b : b.tag = "PyTDClass")
      merged == MROMerge([i \in 1..Len(direct) |-> MroOf(direct[i])]
                           \o <<[i \in 1..Len(direct) |-> direct[i].pyval]>>)
  IN [ok |-> merged.ok, mro |-> <<name>> \o merged.mro, seqs |-> merged.seqs]

\* abstract.PyTDClass(name, pyval, vm) when its linearization succeeds.
PyTDClass(name, id, mro) ==
  [tag |-> "PyTDClass", pyval |-> name, cls |-> "", id |-> id, mro |-> mro]

\* An entry of utils.LazyDict: add_lazy_item(name, constant_to_value, pyval,
\* subst, root) keeps the call for when the entry is read; an assignment
\* keeps the value.
LazyItem(name, pyval) ==
  [name |-> name, lazy |-> TRUE, pyval |-> pyval, value |-> InProgress]

Item(name, value) ==
  [name |-> name, lazy |-> FALSE, pyval |-> Py("", "", 0), value |-> value]

\* pytd.UnionType(type_list), by the names of the declared classes.
UnionType(type_list) ==
  Py("UnionType",
     CASE type_list = <<"A", "B">> -> "Union[A, B]"
       [] type_list = <<"A">> -> "Union[A]"
       [] type_list = <<"NoneType">> -> "Union[NoneType]"
       [] OTHER -> "Union[]",
     0)

\* pyval.type_list of a declared union, by the names of the declared classes.
type_list(union) ==
  CASE union = "Union[A, B]" -> <<"A", "B">>
    [] union = "Union[A]" -> <<"A">>
    [] union = "Union[NoneType]" -> <<"NoneType">>
    [] OTHER -> <<>>

\* abstract.Union(options, vm)
Union(options, id) ==
  [tag |-> "Union", pyval |-> "", cls |-> "", id |-> id, options |-> options]

\* pytd_utils.JoinTypes(types): nothing for no type, the type for one, the
\* union for more.
JoinTypes(types) ==
  IF types = <<>> THEN Py("NothingType", "nothing", 0)
  ELSE IF Len(types) = 1 THEN Py("ClassType", types[1], 0)
  ELSE UnionType(types)

ClassTypes(names) == [i \in 1..Len(names) |-> Py("ClassType", names[i], 0)]


\* A conversion of a generic that fills the template from its second name on.
type_parameters_shifted(g) ==
  LET names == IF g \in TupleTypes
               THEN [i \in 1..Len(parameters(g)) |-> ToString(i - 1)]
                      \o <<"T">>
               ELSE IF g \in CallableTypes
               THEN [i \in 1..Len(parameters(g)) |-> ToString(i - 1)]
                      \o <<"ARGS", "RET">>
               ELSE template(base_type(g))
      params == IF g \in TupleTypes
                THEN ClassTypes(parameters(g)) \o <<UnionType(parameters(g))>>
                ELSE IF g \in CallableTypes
                THEN ClassTypes(parameters(g))
                       \o <<JoinTypes(parameters(g)),
                            Py("ClassType", callable_ret(g), 0)>>
                ELSE ClassTypes(parameters(g))
  IN [i \in 1..Len(names) |->
        IF 1 < i /\ i - 1 <= Len(params)
        THEN LazyItem(names[i], params[i - 1])
        ELSE Item(names[i], unsolvable)]

\* The type parameters _constant_to_value gives the class of a declared
\* generic, in the order of the template.
type_parameters(g) ==
  LET names == IF g \in TupleTypes
               THEN [i \in 1..Len(parameters(g)) |-> ToString(i - 1)]
                      \o <<"T">>
               ELSE IF g \in CallableTypes
               THEN [i \in 1..Len(parameters(g)) |-> ToString(i - 1)]
                      \o <<"ARGS", "RET">>
               ELSE template(base_type(g))
      params == IF g \in TupleTypes
                THEN ClassTypes(parameters(g)) \o <<UnionType(parameters(g))>>
                ELSE IF g \in CallableTypes
                THEN ClassTypes(parameters(g))
                       \o <<JoinTypes(parameters(g)),
                            Py("ClassType", callable_ret(g), 0)>>
                ELSE ClassTypes(parameters(g))
  IN [i \in 1..Len(names) |->
        IF i <= Len(params)
        THEN LazyItem(names[i], params[i])
        ELSE Item(names[i], unsolvable)]

\* abstract.TupleClass, abstract.Callable or abstract.ParameterizedClass of a
\* base class and type parameters.
ParameterizedClass(g, base_cls, params, id) ==
  [tag |-> IF g \in TupleTypes THEN "TupleClass"
           ELSE IF g \in CallableTypes THEN "Callable"
           ELSE "ParameterizedClass",
   pyval |-> g, cls |-> "", id |-> id, base_cls |-> base_cls,
   type_parameters |-> params]

\* A content that holds the Variables of the positions last to first.
tuple_content_reversed(results, node) ==
  [i \in 1..Len(results) |->
     to_variable(results[Len(results) + 1 - i], node)]

\* tuple(self.constant_to_var(abstract.AsInstance(p), subst, get_node())
\*       for p in cls.parameters), given what the conversions returned.
tuple_content(results, node) ==
  [i \in 1..Len(results) |-> to_variable(results[i], node)]

\* abstract.Tuple(content, vm): content holds one Variable for each position.
Tuple(content, id) ==
  [tag |-> "Tuple", pyval |-> "", cls |-> "tuple", id |-> id,
   content |-> content]

\* A call of constant_to_value: pc is "lookup" before the cache is looked at
\* and "body" inside _constant_to_value; todo are the conversions that
\* _constant_to_value has yet to ask for and results what they returned.
Activation(pyval, subst, node) ==
  [pyval |-> pyval, subst |-> subst, node |-> node, pc |-> "lookup",
   need_node |-> FALSE, todo |-> <<>>, results |-> <<>>]

\* The conversions _constant_to_value asks constant_to_value for: the node
\* they are asked at and whether the constant is a new AsInstance wrapper.
NestedCall(pyval, node, wrap) == [pyval |-> pyval, node |-> node, wrap |-> wrap]

\* PyTDClass converts the declared bases of a class when it is constructed.
Bases(name) ==
  [i \in 1..Len(parents[name]) |->
     NestedCall(Py("ClassType", parents[name][i], 0), root_cfg_node, FALSE)]

NestedCalls(pyval, cache, node) ==
  CASE pyval.kind = "Class" -> Bases(pyval.name)
    [] pyval.kind = "ClassType" ->
         <<NestedCall(Py("Class", pyval.name, 0), root_cfg_node, FALSE)>>
    [] pyval.kind = "AsInstance" /\ pyval.name \in ClassNames ->
         IF InstanceKey(pyval.name) \in DOMAIN cache THEN <<>>
         ELSE <<NestedCall(Py("Class", pyval.name, 0), root_cfg_node, FALSE)>>
    [] pyval.kind = "AsInstance" /\ pyval.name = "T" ->
         <<NestedCall(Py("TypeParameter", "T", 0), root_cfg_node, FALSE)>>
    [] pyval.kind = "AsInstance" /\ pyval.name = ListOfT ->
         <<NestedCall(Py("Class", "list", 0), root_cfg_node, FALSE)>>
    [] pyval.kind = "AsInstance" /\ pyval.name \in TupleTypes ->
         [i \in 1..Len(parameters(pyval.name)) |->
            NestedCall(Py("AsInstance", parameters(pyval.name)[i], 0), node,
                       TRUE)]
    [] pyval.kind = "GenericType" ->
         <<NestedCall(Py("Class", base_type(pyval.name), 0), root_cfg_node,
                      FALSE)>>
    [] pyval.kind = "UnionType" ->
         [i \in 1..Len(type_list(pyval.name)) |->
            NestedCall(Py("ClassType", type_list(pyval.name)[i], 0),
                       root_cfg_node, FALSE)]
    [] OTHER -> <<>>

\* Whether _constant_to_value raises TypeParameterError: the parameter of
\* type[T], or of an instance of the generic list[T], has no substitution.
RaisesTypeParameterError(pyval, subst) ==
  /\ pyval.kind = "AsInstance"
  /\ pyval.name \in {TypeOfT, ListOfT}
  /\ "T" \notin subst

\* Whether _constant_to_value calls get_node() for the constant.
CallsGetNode(pyval, subst) ==
  /\ pyval.kind = "AsInstance"
  /\ \/ pyval.name \in TupleTypes
     \/ pyval.name \in {TypeOfT, ListOfT} /\ "T" \in subst

\* A test for small integers that leaves out -1.
IsSmallIntFromZero(pyval) ==
  IsInt(pyval) /\ 0 <= IntValue(pyval) /\ IntValue(pyval) <= MAX_IMPORT_DEPTH

\* isinstance(pyval, int) and -1 <= pyval <= MAX_IMPORT_DEPTH
IsSmallInt(pyval) ==
  IsInt(pyval) /\ -1 <= IntValue(pyval) /\ IntValue(pyval) <= MAX_IMPORT_DEPTH

\* The value _constant_to_value returns; id is the identity of a value it
\* constructs.
Constructed(a, cache, id) ==
  LET pyval == a.pyval IN
  CASE pyval.kind = "literal" ->
         IF IsSmallInt(pyval)
         THEN Value("AbstractOrConcreteValue", pyval.name, "int", id)
         ELSE IF TypeOf(pyval) = "long"
         THEN primitive_class_instances("int")
         ELSE primitive_class_instances(TypeOf(pyval))
    [] pyval.kind = "Class" ->
         IF compute_mro(pyval.name, a.results).ok
         THEN PyTDClass(pyval.name, id, compute_mro(pyval.name, a.results).mro)
         ELSE unsolvable
    [] pyval.kind = "ClassType" -> a.results[1]
    [] pyval.kind = "TypeParameter" -> Value("TypeParameter", pyval.name, "", id)
    [] pyval.kind = "AsInstance" /\ pyval.name \in ClassNames ->
         IF a.results = <<>> THEN cache[InstanceKey(pyval.name)]
         ELSE Value("Instance", "", pyval.name, id)
    [] pyval.kind = "AsInstance" /\ pyval.name = "T" -> a.results[1]
    [] pyval.kind = "AsInstance" /\ pyval.name = TypeOfT ->
         Value("PyTDClass", "int", "", id)
    [] pyval.kind = "AsInstance" /\ pyval.name \in TupleTypes ->
         Tuple(tuple_content(a.results, a.node), id)
    [] pyval.kind = "UnionType" ->
         IF Len(a.results) > 1 THEN Union(a.results, id) ELSE a.results[1]
    [] pyval.kind = "NothingType" -> convert_nothing
    [] pyval.kind = "GenericType" ->
         IF a.results[1].tag # "PyTDClass" THEN unsolvable
         ELSE ParameterizedClass(pyval.name, a.results[1],
                                 type_parameters(pyval.name), id)
    [] OTHER -> Value("Instance", "", "list", id)

\* Whether _constant_to_value stores the value at the key of the instance of
\* a declared class.
StoresInstance(a) ==
  a.pyval.kind = "AsInstance" /\ a.pyval.name \in ClassNames /\ a.results # <<>>

\* What the converter's caller sees of a conversion that has finished.
Finished(status, value, used_node) ==
  [via |-> request.via, pyval |-> request.pyval, subst |-> request.subst,
   node |-> request.node, status |-> status, value |-> value,
   used_node |-> used_node,
   var |-> IF request.via = "constant_to_var" /\ status = "returned"
           THEN Len(history) + 1 ELSE 0]

TypeParameterError == Value("TypeParameterError", "T", "", 0)

\* The innermost constant_to_value call returns value.
Returns(value, used_node) ==
  IF Len(calls) = 1
  THEN /\ calls' = <<>>
       /\ history' = Append(history, Finished("returned", value, used_node))
  ELSE /\ calls' = [SubSeq(calls, 1, Len(calls) - 1) EXCEPT
                      ![Len(calls) - 1].results = Append(@, value)]
       /\ history' = history

Idle == calls = <<>> /\ Len(history) < MaxCalls

Inner == calls[Len(calls)]

\* The caller calls constant_to_value(pyval, subst, node).
CallConstantToValue ==
  /\ Idle
  /\ \E pyval \in Inputs : \E subst \in Substs(pyval) : \E node \in Nodes :
       /\ request' = [via |-> "constant_to_value", pyval |-> pyval,
                      subst |-> subst, node |-> node]
       /\ calls' = <<Activation(pyval, subst, node)>>
  /\ UNCHANGED <<later_vars, vm_vars, errorlog, parents, convert_cache, history,
                 nvalues, nobjs>>

\* The caller calls constant_to_var(pyval, subst, node) for a constant that
\* it hands on to constant_to_value: an instance of a declared type is wrapped
\* in a new AsInstance.
CallConstantToVar ==
  /\ Idle
  /\ \E pyval \in Inputs : \E subst \in Substs(pyval) : \E node \in Nodes :
       /\ ~(pyval.kind = "AsInstance" /\ pyval.name = "T")
       /\ request' = [via |-> "constant_to_var", pyval |-> pyval,
                      subst |-> subst, node |-> node]
       /\ IF pyval.kind = "AsInstance"
          THEN /\ calls' = <<Activation(Py("AsInstance", pyval.name, nobjs + 1),
                                        subst, node)>>
               /\ nobjs' = nobjs + 1
          ELSE /\ calls' = <<Activation(pyval, subst, node)>>
               /\ nobjs' = nobjs
  /\ UNCHANGED <<later_vars, vm_vars, errorlog, parents, convert_cache, history, nvalues>>

\* The integer, bool and long constants of a program, and None.
LiteralInputs ==
  {Py("literal", n, 0) :
     n \in IntLiterals \cup BoolLiterals \cup LongLiterals \cup {"None"}}

\* The caller converts a constant of the program's code, by constant_to_value
\* or by constant_to_var, which hands it on to constant_to_value.
CallConvertLiteral ==
  /\ Idle
  /\ \E pyval \in LiteralInputs : \E node \in Nodes :
       \E via \in {"constant_to_value", "constant_to_var"} :
         /\ request' = [via |-> via, pyval |-> pyval, subst |-> {},
                        node |-> node]
         /\ calls' = <<Activation(pyval, {}, node)>>
  /\ UNCHANGED <<later_vars, vm_vars, errorlog, parents, convert_cache, history,
                 nvalues, nobjs>>

\* The arguments build_bool is called with: None, the two bools, and the int 1.
BoolArguments == {"None", "True", "False", "1"}

\* The caller calls build_bool(node, value).
BuildBool ==
  /\ Idle
  /\ \E value \in BoolArguments : \E node \in Nodes :
       /\ request' = [via |-> "build_bool", pyval |-> Py("literal", value, 0),
                      subst |-> {}, node |-> node]
       /\ history' = Append(history,
            [via |-> "build_bool", pyval |-> Py("literal", value, 0),
             subst |-> {}, node |-> node,
             status |-> IF build_bool(value) = ValueError THEN "raised"
                        ELSE "returned",
             value |-> build_bool(value),
             used_node |-> FALSE,
             var |-> IF build_bool(value) = ValueError THEN 0
                     ELSE Len(history) + 1])
  /\ UNCHANGED <<later_vars, vm_vars, errorlog, parents, convert_cache, calls,
                 nvalues, nobjs>>

\* The declared types of a program with the class C: the class, the classes
\* of generics, tuples and callables, and instances of tuples.
TypeInputs ==
  {Py("Class", "C", 0)}
    \cup {Py("GenericType", g, 0) :
            g \in {GenericOfA, GenericOfAB, TupleOfA, TupleOfAB,
                   CallableOfNothing, CallableOfAB}}
    \cup {Py("AsInstance", g, 1) : g \in {TupleOfA, TupleOfAB}}

\* The caller calls constant_to_value(pyval, {}, node) for a declared type.
CallConvertDeclaredType ==
  /\ Idle
  /\ \E pyval \in TypeInputs : \E node \in Nodes :
       /\ request' = [via |-> "constant_to_value", pyval |-> pyval,
                      subst |-> {}, node |-> node]
       /\ calls' = <<Activation(pyval, {}, node)>>
  /\ UNCHANGED <<later_vars, vm_vars, errorlog, parents, convert_cache, history,
                 nvalues, nobjs>>

\* The caller reads an entry of the type parameters of a class that an
\* earlier conversion returned: a lazy entry calls constant_to_value for the
\* declared parameter at the root node, any other entry is the value kept.
ReadTypeParameter ==
  /\ Idle
  /\ \E i \in 1..Len(history) :
       /\ history[i].status = "returned"
       /\ "type_parameters" \in DOMAIN history[i].value
       /\ \E k \in 1..Len(history[i].value.type_parameters) :
            LET item == history[i].value.type_parameters[k] IN
            /\ request' = [via |-> "type_parameters", pyval |-> item.pyval,
                           subst |-> history[i].subst, node |-> root_cfg_node]
            /\ IF item.lazy
               THEN /\ calls' = <<Activation(item.pyval, history[i].subst,
                                             root_cfg_node)>>
                    /\ history' = history
               ELSE /\ calls' = calls
                    /\ history' = Append(history,
                         [via |-> "type_parameters", pyval |-> item.pyval,
                          subst |-> history[i].subst, node |-> root_cfg_node,
                          status |-> "returned", value |-> item.value,
                          used_node |-> FALSE, var |-> 0])
  /\ UNCHANGED <<later_vars, vm_vars, errorlog, parents, convert_cache, nvalues,
                 nobjs>>

\* The caller calls constant_to_var for an instance of the type parameter T:
\* its bindings in the substitution, or TypeParameterError without one.
ConstantToVarOfTypeParameter ==
  /\ Idle
  /\ \E subst \in {{}, {"T"}} : \E node \in Nodes :
       /\ request' = [via |-> "constant_to_var",
                      pyval |-> Py("AsInstance", "T", 1),
                      subst |-> subst, node |-> node]
       /\ history' = Append(history,
            [via |-> "constant_to_var", pyval |-> Py("AsInstance", "T", 1),
             subst |-> subst, node |-> node,
             status |-> IF "T" \in subst THEN "returned" ELSE "raised",
             value |-> IF "T" \in subst THEN SubstData
                       ELSE TypeParameterError,
             used_node |-> FALSE,
             var |-> IF "T" \in subst THEN Len(history) + 1 ELSE 0])
  /\ UNCHANGED <<later_vars, vm_vars, errorlog, parents, convert_cache, calls, nvalues,
                 nobjs>>

\* constant_to_value finds a value at the key and returns it.
CacheHit ==
  /\ calls # <<>> /\ Inner.pc = "lookup"
  /\ LET key == ConstantKey(Inner.pyval) IN
     /\ key \in DOMAIN convert_cache
     /\ ~IsInProgress(convert_cache, key)
     /\ Returns(convert_cache[key], FALSE)
  /\ UNCHANGED <<later_vars, vm_vars, errorlog, parents, convert_cache, request, nvalues,
                 nobjs>>

\* The name a recursion error is reported with: the name of a pytd node, the
\* class name of any other constant.
RecursionErrorName(pyval) ==
  IF pyval.kind = "AsInstance" THEN "AsInstance" ELSE pyval.name

\* constant_to_value finds a conversion of the key in progress: it reports a
\* recursion error, stores the unsolvable value at the key and returns it.
RecursionError ==
  /\ calls # <<>> /\ Inner.pc = "lookup"
  /\ LET key == ConstantKey(Inner.pyval) IN
     /\ IsInProgress(convert_cache, key)
     /\ errorlog' = Append(errorlog, [error |-> "recursion_error",
                                      name |-> RecursionErrorName(Inner.pyval)])
     /\ convert_cache' = set_item(convert_cache, key, unsolvable)
     /\ Returns(unsolvable, FALSE)
  /\ UNCHANGED <<later_vars, vm_vars, parents, request, nvalues, nobjs>>

\* constant_to_value finds nothing at the key: it stores None there and calls
\* _constant_to_value.
StartConversion ==
  /\ calls # <<>> /\ Inner.pc = "lookup"
  /\ LET key == ConstantKey(Inner.pyval) IN
     /\ key \notin DOMAIN convert_cache
     /\ convert_cache' = set_item(convert_cache, key, InProgress)
     /\ calls' = [calls EXCEPT ![Len(calls)] =
          [Inner EXCEPT
             !.pc = "body",
             !.todo = NestedCalls(Inner.pyval, convert_cache, Inner.node),
             !.need_node = Inner.pyval.kind = "AsInstance"
                             /\ Inner.pyval.name \in TupleTypes]]
  /\ UNCHANGED <<later_vars, vm_vars, errorlog, parents, request, history, nvalues, nobjs>>

\* _constant_to_value calls constant_to_value (directly, through
\* constant_to_var or through the construction of a class).
NestedConversion ==
  /\ calls # <<>> /\ Inner.pc = "body" /\ Inner.todo # <<>>
  /\ LET c == Head(Inner.todo)
         pyval == IF c.wrap THEN Py("AsInstance", c.pyval.name, nobjs + 1)
                  ELSE c.pyval
     IN
     /\ calls' = Append([calls EXCEPT ![Len(calls)].todo = Tail(@)],
                        Activation(pyval, Inner.subst, c.node))
     /\ nobjs' = IF c.wrap THEN nobjs + 1 ELSE nobjs
  /\ UNCHANGED <<later_vars, vm_vars, errorlog, parents, convert_cache, request, history,
                 nvalues>>

\* _constant_to_value raises TypeParameterError, which no constant_to_value
\* call in progress catches.
RaiseTypeParameterError ==
  /\ calls # <<>> /\ Inner.pc = "body" /\ Inner.todo = <<>>
  /\ RaisesTypeParameterError(Inner.pyval, Inner.subst)
  /\ calls' = <<>>
  /\ history' = Append(history, Finished("raised", TypeParameterError, FALSE))
  /\ UNCHANGED <<later_vars, vm_vars, errorlog, parents, convert_cache, request, nvalues,
                 nobjs>>

\* A conversion that reports the failed linearization of a class twice.
MroErrorsTwice(a) ==
  IF a.pyval.kind = "Class" /\ ~compute_mro(a.pyval.name, a.results).ok
  THEN <<[error |-> "mro_error", name |-> a.pyval.name,
          mro_seqs |-> compute_mro(a.pyval.name, a.results).seqs],
         [error |-> "mro_error", name |-> a.pyval.name,
          mro_seqs |-> compute_mro(a.pyval.name, a.results).seqs]>>
  ELSE <<>>

\* The diagnostic of _constant_to_value for a class whose linearization
\* fails: errorlog.mro_error(frames, base_name, e.mro_seqs).
MroErrors(a) ==
  IF a.pyval.kind = "Class" /\ ~compute_mro(a.pyval.name, a.results).ok
  THEN <<[error |-> "mro_error", name |-> a.pyval.name,
          mro_seqs |-> compute_mro(a.pyval.name, a.results).seqs]>>
  ELSE <<>>

\* _constant_to_value returns a value; constant_to_value stores it at the key
\* unless it was constructed with a node other than the root, and returns it.
ReturnValue ==
  /\ calls # <<>> /\ Inner.pc = "body" /\ Inner.todo = <<>>
  /\ ~RaisesTypeParameterError(Inner.pyval, Inner.subst)
  /\ LET a == Inner
         value == Constructed(a, convert_cache, nvalues + 1)
         need_node == a.need_node \/ CallsGetNode(a.pyval, a.subst)
         cache == IF StoresInstance(a)
                  THEN set_item(convert_cache, InstanceKey(a.pyval.name), value)
                  ELSE convert_cache
     IN
     /\ nvalues' = IF value.id = nvalues + 1 THEN nvalues + 1 ELSE nvalues
     /\ convert_cache' = IF ShouldCache(need_node, a.node)
                         THEN set_item(cache, ConstantKey(a.pyval), value)
                         ELSE cache
     /\ errorlog' = errorlog \o MroErrors(a)
     /\ Returns(value, need_node)
  /\ UNCHANGED <<later_vars, vm_vars, parents, request, nobjs>>

(***************************************************************************)
(* Part 3: binary operator dispatch                                        *)
(***************************************************************************)

\* Largest number of bindings of an operand Variable.
MaxBindings == 2

reversable_operators == {"__add__"}

\* The operators call_binary_operator is called with: one reversible, one not.
OperatorNames == {"__add__", "__contains__"}

\* A table of reversible operators that lacks the operator.
reverse_operator_name_missing(name) == ""

\* reverse_operator_name(name); "" stands for None.
reverse_operator_name(name) ==
  IF name \in reversable_operators THEN "__radd__" ELSE ""

\* The classes of the analysed program: B derives from A and D from B.
OperandClasses == {"A", "B", "D"}

\* cls.mro, the class object apart.
Mro(cls) ==
  CASE cls = "A" -> <<"A">>
    [] cls = "B" -> <<"B", "A">>
    [] OTHER -> <<"D", "B", "A">>

\* The class of the value of a binding: "a", "b" and "d" are instances of A,
\* B and D; the cls of the unsolvable value is None ("").
ClassOf(val) ==
  CASE val = "a" -> "A" [] val = "b" -> "B" [] val = "d" -> "D" [] OTHER -> ""

\* isinstance(val.data, abstract.AMBIGUOUS_OR_EMPTY)
IsAmbiguous(val) == val = "unsolvable"

\* What a class declares for an attribute: nothing, a method whose call
\* succeeds, or a method whose call raises FailedFunctionCall.
Behaviours == {"absent", "ok", "fail"}

\* The member declarations of the analysed program.
MemberDeclarations ==
  {[c \in OperandClasses |->
      [m \in {"__add__", "__radd__", "__contains__"} |->
         CASE c = "A" /\ m = "__add__" -> aa
           [] c = "A" /\ m = "__radd__" -> ar
           [] c = "A" /\ m = "__contains__" -> ac
           [] c = "B" /\ m = "__add__" -> ba
           [] c = "B" /\ m = "__radd__" -> br
           [] c = "D" /\ m = "__radd__" -> dr
           [] OTHER -> "absent"]] :
     aa \in Behaviours, ar \in {"absent", "fail"}, ac \in {"absent", "fail"},
     ba \in {"absent", "ok"}, br \in Behaviours, dr \in {"absent", "ok"}}

\* Position of a class in a method resolution order (0 if it is not in it).
MroIndex(order, cls) ==
  IF \E i \in 1..Len(order) : order[i] = cls
  THEN CHOOSE i \in 1..Len(order) : order[i] = cls
  ELSE 0

\* A lookup that looks at the members of the subclass itself only.
overrides_in_subclass_only(subcls, supercls, attr) ==
  /\ subcls # "" /\ supercls # ""
  /\ MroIndex(Mro(subcls), supercls) > 1
  /\ members[subcls][attr] # "absent"

\* _overrides(node, subcls_var, supercls_var, attr): the subclass derives
\* from the superclass and a class before the superclass in its mro has the
\* attribute among its members.
overrides(subcls, supercls, attr) ==
  /\ subcls # "" /\ supercls # ""
  /\ \E i \in 1..Len(Mro(subcls)) :
       /\ i < MroIndex(Mro(subcls), supercls)
       /\ members[Mro(subcls)[i]][attr] # "absent"

\* attribute_handler.get_attribute_generic(node, val, attr): what the first
\* class of the mro that has the attribute declares for it; every attribute
\* of the unsolvable value is the unsolvable value, which can be called.
get_attribute_generic(val, attr) ==
  IF IsAmbiguous(val) THEN "ok"
  ELSE LET order == Mro(ClassOf(val))
           has == {i \in 1..Len(order) : members[order[i]][attr] # "absent"}
       IN IF has = {} THEN "absent"
          ELSE members[order[CHOOSE i \in has : \A j \in has : i <= j]][attr]

\* The class whose method a lookup finds ("" for the unsolvable value).
DefiningClass(val, attr) ==
  IF IsAmbiguous(val) THEN ""
  ELSE LET order == Mro(ClassOf(val))
           has == {i \in 1..Len(order) : members[order[i]][attr] # "absent"}
       IN order[CHOOSE i \in has : \A j \in has : i <= j]

\* A binding of a Variable: its data and the bindings it was derived from.
Binding(data, sources) == [data |-> data, sources |-> sources]

\* The value a successful call of a method returns, named after the method.
CallResult(val, attr) ==
  IF IsAmbiguous(val) THEN [cls |-> "", attr |-> "unsolvable"]
  ELSE [cls |-> DefiningClass(val, attr), attr |-> attr]

unsolvable_result == [cls |-> "", attr |-> "unsolvable"]

\* A candidate of _call_binop_on_bindings: (left_val, right_val, attr_name).
Option(left, right, attr) == [left |-> left, right |-> right, attr |-> attr]

\* The candidates in the order in which _call_binop_on_bindings tries them.
Options(name, xval, yval) ==
  LET rname == reverse_operator_name(name)
      forward == Option(xval, yval, name)
      reflected == Option(yval, xval, rname)
  IN IF rname = "" THEN <<forward>>
     ELSE IF overrides(ClassOf(yval), ClassOf(xval), rname)
     THEN <<reflected, forward>>
     ELSE <<forward, reflected>>

\* What _call_binop_on_bindings did: the exception it raised ("" if none),
\* the node and the Variable it returned (some is FALSE for None), the
\* attributes it looked up and the methods it called, in order.
BinopOutcome(exn, node, some, ret, lookups, called) ==
  [exn |-> exn, node |-> node, some |-> some, ret |-> ret,
   lookups |-> lookups, called |-> called]

\* The loop of _call_binop_on_bindings over the candidates from the i-th on.
RECURSIVE TryOptions(_, _, _, _, _, _)
TryOptions(options, i, node, error, lookups, called) ==
  IF i > Len(options)
  THEN BinopOutcome(error, node, FALSE, {}, lookups, called)
  ELSE LET o == options[i]
           attr_var == get_attribute_generic(o.left, o.attr)
           looked == Append(lookups, [left |-> o.left, attr |-> o.attr])
           tried == Append(called, [left |-> o.left, attr |-> o.attr,
                                    ok |-> attr_var = "ok"])
       IN IF attr_var = "absent"
          THEN TryOptions(options, i + 1, node, error, looked, called)
          ELSE IF attr_var = "ok"
          THEN BinopOutcome("", node + 1, TRUE,
                            {Binding(CallResult(o.left, o.attr), {})},
                            looked, tried)
          ELSE TryOptions(options, i + 1, node, "FailedFunctionCall",
                          looked, tried)

\* _call_binop_on_bindings(node, name, xval, yval); nn is the number of CFG
\* nodes, a successful call ends on a new one.
call_binop_on_bindings(node, nn, name, xval, yval) ==
  IF reverse_operator_name(name) # "" /\ IsAmbiguous(xval)
  THEN BinopOutcome("", node, TRUE,
                    {Binding(unsolvable_result, {xval, yval})}, <<>>, <<>>)
  ELSE LET out == TryOptions(Options(name, xval, yval), 1, nn, "", <<>>, <<>>)
       IN IF out.some THEN out ELSE [out EXCEPT !.node = node]

\* The values of the bindings of the left and of the right operand.
LeftValues == <<"a", "b", "unsolvable">>

RightValues == <<"a", "b", "d">>

\* The operand Variables: up to MaxBindings bindings, in the order of their
\* creation.
OperandVariables(values) ==
  LET indices ==
        {f \in UNION {[1..k -> 1..Len(values)] : k \in 1..MaxBindings} :
           \A i, j \in DOMAIN f : i < j => f[i] < f[j]}
  IN {[i \in DOMAIN f |-> values[f[i]]] : f \in indices}

NoBinop ==
  [phase |-> "idle", name |-> "", x |-> <<>>, y |-> <<>>,
   report_errors |-> FALSE, i |-> 1, j |-> 1, node |-> root_cfg_node,
   nn |-> 1, nodes |-> <<>>, results |-> <<>>, error |-> "",
   pairs |-> <<>>, result |-> {}, reported |-> 0]

\* call_binary_operator(state, name, x, y, report_errors) up to its loops.
CallBinaryOperator ==
  /\ binop.phase = "idle"
  /\ \E name \in OperatorNames : \E x \in OperandVariables(LeftValues) :
       \E y \in OperandVariables(RightValues) : \E report_errors \in BOOLEAN :
         binop' = [NoBinop EXCEPT !.phase = "pairs", !.name = name,
                                  !.x = x, !.y = y,
                                  !.report_errors = report_errors]
  /\ UNCHANGED <<vm_vars, errorlog, convert_vars, members, after_operator_vars>>

\* One turn of the loops of call_binary_operator: the call of
\* _call_binop_on_bindings for a pair of bindings, at the node of the state.
CallBinopOnBindings ==
  /\ binop.phase = "pairs"
  /\ binop.i <= Len(binop.x)
  /\ LET xval == binop.x[binop.i]
         yval == binop.y[binop.j]
         out == call_binop_on_bindings(binop.node, binop.nn, binop.name,
                                       xval, yval)
         last_y == binop.j = Len(binop.y)
     IN binop' = [binop EXCEPT
          !.i = IF last_y THEN @ + 1 ELSE @,
          !.j = IF last_y THEN 1 ELSE @ + 1,
          !.nn = IF out.node > @ THEN out.node ELSE @,
          !.error = IF out.exn # "" THEN out.exn ELSE @,
          !.nodes = IF out.exn = "" /\ out.some THEN Append(@, out.node) ELSE @,
          !.results = IF out.exn = "" /\ out.some THEN Append(@, out.ret) ELSE @,
          !.pairs = Append(@, [xval |-> xval, yval |-> yval, node |-> binop.node,
                               out |-> out])]
  /\ UNCHANGED <<vm_vars, errorlog, convert_vars, members, after_operator_vars>>

\* vm.join_variables(node, variables): the bindings of all of them.
join_variables(variables) ==
  UNION {variables[k] : k \in 1..Len(variables)}

\* The diagnostic call_binary_operator reports for an operator without a
\* result.
OperatorError(name, error) ==
  [error |-> IF error = "" THEN "unsupported_operands"
             ELSE "invalid_function_call",
   name |-> name]

\* A call_binary_operator that reports whatever report_errors says.
ShouldReportAlways(result, report_errors) == result = {}

\* The test of call_binary_operator for reporting an operator without result.
ShouldReport(result, report_errors) == result = {} /\ report_errors

\* The end of call_binary_operator: the join of the nodes and of the results
\* and, with report_errors, the diagnostic and the unsolvable binding of an
\* operator without a result.
JoinBinaryOperator ==
  /\ binop.phase = "pairs"
  /\ binop.i > Len(binop.x)
  /\ LET node == IF binop.nodes = <<>> THEN binop.node
                 ELSE join_cfg_nodes(binop.nodes, binop.nn)
         result == join_variables(binop.results)
         report == ShouldReport(result, binop.report_errors)
     IN /\ binop' = [binop EXCEPT
             !.phase = "done",
             !.node = node,
             !.nn = IF node > @ THEN node ELSE @,
             !.result = IF report THEN {Binding(unsolvable_result, {})}
                        ELSE result,
             !.reported = IF report THEN 1 ELSE 0]
        /\ errorlog' = IF report
                       THEN Append(errorlog,
                                   OperatorError(binop.name, binop.error))
                       ELSE errorlog
  /\ UNCHANGED <<vm_vars, convert_vars, members, after_operator_vars>>

(***************************************************************************)
(* Part 4: attribute lookup (vm.py, _retrieve_attr and load_attr)          *)
(***************************************************************************)

\* The data of the bindings of the object: None and instances of two classes.
ObjectValues == <<"None", "a", "b">>

\* The object Variables: up to MaxBindings bindings, in the order of their
\* creation, each visible at the node of the state or not.
ObjectVariables ==
  LET indices ==
        {f \in UNION {[1..k -> 1..Len(ObjectValues)] : k \in 0..MaxBindings} :
           \A i, j \in DOMAIN f : i < j => f[i] < f[j]}
  IN UNION {{[i \in DOMAIN f |-> [data |-> ObjectValues[f[i]],
                                  visible |-> v[i]]] :
               v \in [DOMAIN f -> BOOLEAN]} : f \in indices}

\* obj.Bindings(node): the bindings that are visible at the node.
Bindings(obj) == SelectSeq(obj, LAMBDA b : b.visible)

\* vm._data_is_none(x)
data_is_none(data) == data = "None"

\* vm._is_none(node, binding): the binding is None or unreachable.
is_none(b) == data_is_none(b.data) \/ ~b.visible

\* vm._has_at_least_one_none(node, obj)
has_at_least_one_none(obj) ==
  \E k \in 1..Len(obj) : data_is_none(obj[k].data) /\ obj[k].visible

\* An _is_only_none that is content with one None among the bindings.
is_only_none_among_others(obj) == has_at_least_one_none(obj)

\* vm._is_only_none(node, obj)
is_only_none(obj) ==
  /\ \A k \in 1..Len(obj) : is_none(obj[k])
  /\ has_at_least_one_none(obj)

\* The Variable get_attribute_generic gives for an attribute of a value.
AttributeOf(data, attr) == {Binding([cls |-> data, attr |-> attr], {})}

NoAttrLoad ==
  [phase |-> "idle", obj |-> <<>>, attr |-> "", has |-> {}, k |-> 1,
   node |-> root_cfg_node, nodes |-> <<>>, resolved |-> <<>>,
   values_without_attribute |-> <<>>, result |-> {}, absent |-> TRUE]

\* load_attr(state, obj, attr) and _retrieve_attr up to its loop; has is the
\* set of values whose lookup of the attribute succeeds.
CallLoadAttr ==
  /\ attrload.phase = "idle"
  /\ \E obj \in ObjectVariables : \E has \in SUBSET {"None", "a", "b"} :
       attrload' = [NoAttrLoad EXCEPT !.phase = "bindings", !.obj = obj,
                                      !.attr = "x", !.has = has]
  /\ UNCHANGED <<vm_vars, errorlog, convert_vars, operator_vars,
               after_attribute_vars>>

\* One turn of the loop of _retrieve_attr: the lookup on one binding.
RetrieveAttr ==
  /\ attrload.phase = "bindings"
  /\ attrload.k <= Len(Bindings(attrload.obj))
  /\ LET val == Bindings(attrload.obj)[attrload.k]
         found == val.data \in attrload.has
     IN attrload' = [attrload EXCEPT
          !.k = @ + 1,
          !.values_without_attribute = IF found THEN @ ELSE Append(@, val),
          !.resolved = IF found THEN Append(@, val) ELSE @,
          !.result = IF found THEN @ \cup AttributeOf(val.data, attrload.attr)
                     ELSE @,
          !.nodes = IF found THEN Append(@, attrload.node) ELSE @]
  /\ UNCHANGED <<vm_vars, errorlog, convert_vars, operator_vars,
               after_attribute_vars>>

\* The diagnostics of load_attr for the bindings without the attribute.
AttributeErrors(obj, errors, attr) ==
  IF errors # <<>> /\ obj # <<>> /\ is_only_none(obj)
  THEN <<[error |-> "none_attr", name |-> attr]>>
  ELSE LET reported == SelectSeq(errors, LAMBDA b : ~is_none(b))
       IN [i \in 1..Len(reported) |->
             [error |-> "attribute_error", name |-> reported[i].data]]

\* The end of _retrieve_attr and the rest of load_attr: the join of the
\* nodes, the diagnostics, and the unsolvable value in place of no result.
LoadAttr ==
  /\ attrload.phase = "bindings"
  /\ attrload.k > Len(Bindings(attrload.obj))
  /\ LET absent == attrload.nodes = <<>>
     IN attrload' = [attrload EXCEPT
          !.phase = "done",
          !.absent = absent,
          !.node = IF absent THEN @ ELSE join_cfg_nodes(attrload.nodes, @),
          !.result = IF absent THEN {Binding(unsolvable_result, {})} ELSE @]
  /\ errorlog' = errorlog \o AttributeErrors(attrload.obj,
                                             attrload.values_without_attribute,
                                             attrload.attr)
  /\ UNCHANGED <<vm_vars, convert_vars, operator_vars, after_attribute_vars>>

(***************************************************************************)
(* Part 5: the iteration protocol (vm.py, _get_iter)                       *)
(***************************************************************************)

\* _retrieve_attr(node, obj, attr) as a function: has is the set of values
\* whose lookup of the attribute succeeds; func is the result, found tells
\* whether there is one, missing is values_without_attribute.
retrieve_attr(obj, attr, has) ==
  LET visible == Bindings(obj)
      resolved == SelectSeq(visible, LAMBDA b : b.data \in has)
  IN [found |-> resolved # <<>>,
      func |-> UNION {AttributeOf(resolved[k].data, attr) :
                        k \in 1..Len(resolved)},
      missing |-> SelectSeq(visible, LAMBDA b : b.data \notin has)]

\* call_function_with_state(state, func, args): the Variable of the results
\* of the functions bound to func.
call_function(func, args) ==
  {Binding([cls |-> b.data.cls, attr |-> "result of " \o b.data.attr], {}) :
     b \in func}

\* What _get_iter gives its caller in itr: the result of __iter__, an
\* abstract.Iterator around an item, a new unsolvable, or None.
Itr(kind, item) == [kind |-> kind, item |-> item]

\* A _get_iter that reports whatever report_errors says.
IterErrorsAlways(missing, report_errors) ==
  [i \in 1..Len(missing) |->
     [error |-> IF data_is_none(missing[i].data) THEN "none_attr"
                ELSE "attribute_error",
      name |-> "__iter__"]]

\* The diagnostics of _get_iter for an object that cannot be iterated.
IterErrors(missing, report_errors) ==
  IF report_errors
  THEN [i \in 1..Len(missing) |->
          [error |-> IF data_is_none(missing[i].data) THEN "none_attr"
                     ELSE "attribute_error",
           name |-> "__iter__"]]
  ELSE <<>>

NoGetIter ==
  [phase |-> "idle", seq |-> <<>>, has_iter |-> {}, has_getitem |-> {},
   report_errors |-> FALSE, lookups |-> <<>>, called |-> <<>>,
   itr |-> Itr("None", {})]

\* The call _get_iter(state, seq, report_errors): byte_GET_ITER and
\* _unpack_sequence report errors, _cmp_in does not.
CallGetIter ==
  /\ getiter.phase = "idle"
  /\ \E seq \in ObjectVariables : \E has_iter \in SUBSET {"a", "b"} :
       \E has_getitem \in SUBSET {"a", "b"} : \E report_errors \in BOOLEAN :
         getiter' = [NoGetIter EXCEPT !.phase = "__iter__", !.seq = seq,
                                      !.has_iter = has_iter,
                                      !.has_getitem = has_getitem,
                                      !.report_errors = report_errors]
  /\ UNCHANGED <<vm_vars, errorlog, convert_vars, operator_vars,
                 attribute_vars, after_iteration_vars>>

\* The first part of _get_iter: load_attr_noerror of __iter__ and, when it
\* gives a function, its call.
TryIter ==
  /\ getiter.phase = "__iter__"
  /\ LET got == retrieve_attr(getiter.seq, "__iter__", getiter.has_iter)
     IN getiter' = [getiter EXCEPT
          !.lookups = Append(@, "__iter__"),
          !.phase = IF got.found THEN "done" ELSE "__getitem__",
          !.called = IF got.found
                     THEN Append(@, [attr |-> "__iter__", args |-> <<>>])
                     ELSE @,
          !.itr = IF got.found
                  THEN Itr("result", call_function(got.func, <<>>))
                  ELSE @]
  /\ UNCHANGED <<vm_vars, errorlog, convert_vars, operator_vars,
                 attribute_vars, after_iteration_vars>>

\* The else branch of _get_iter: _retrieve_attr of __getitem__, its call with
\* an int and the Iterator around the item, or the diagnostics.
TryGetItem ==
  /\ getiter.phase = "__getitem__"
  /\ LET got == retrieve_attr(getiter.seq, "__getitem__", getiter.has_getitem)
     IN /\ getiter' = [getiter EXCEPT
             !.lookups = Append(@, "__getitem__"),
             !.phase = "done",
             !.called = IF got.found
                        THEN Append(@, [attr |-> "__getitem__",
                                        args |-> <<"int">>])
                        ELSE @,
             !.itr = IF got.found
                     THEN Itr("Iterator", call_function(got.func, <<"int">>))
                     ELSE IF getiter.report_errors
                          THEN Itr("unsolvable", {})
                          ELSE Itr("None", {})]
        /\ errorlog' = IF got.found THEN errorlog
                       ELSE errorlog \o IterErrors(got.missing,
                                                   getiter.report_errors)
  /\ UNCHANGED <<vm_vars, convert_vars, operator_vars, attribute_vars,
                 after_iteration_vars>>

(***************************************************************************)
(* Part 6: unpacking (vm.py, _unpack_sequence)                             *)
(***************************************************************************)

\* Largest n_before and n_after of an unpacking opcode.
MaxArity == 2

\* An abstract value: its class and the classes of its type parameter T.
Obj(cls, T) == [cls |-> cls, T |-> T]

\* The Variables of the elements of a literal tuple; one has no bindings.
ElementVariables == {{}, {Obj("int", {})}, {Obj("str", {})}}

\* The lengths of the literal tuples.
TupleLengths == 0..2

\* The data of the bindings of an unpacked Variable: literal tuples and an
\* iterable that is no literal.
SequenceValues ==
  {[kind |-> "tuple", elems |-> t] :
     t \in UNION {[1..n -> ElementVariables] : n \in TupleLengths}}
  \cup {[kind |-> "iterable", elems |-> <<>>]}

\* The unpacked Variables: up to MaxBindings bindings.
SequenceVariables ==
  {seq \in SUBSET SequenceValues : Cardinality(seq) <= MaxBindings}

\* _get_literal_sequence(data) with the test `if tup` of its caller: the
\* elements of a literal tuple that is not empty.
IsLiteralSequence(data) == data.kind = "tuple" /\ data.elems # <<>>

\* convert.build_list(node, content)
build_list(content) ==
  {Obj("list", {v.cls : v \in UNION {content[i] : i \in 1..Len(content)}})}

\* convert.build_list_of_type(node, var)
build_list_of_type(var) == {Obj("list", {v.cls : v \in var})}

\* vm._restructure_tuple(state, tup, pre, post)
restructure_tuple(tup, pre, post) ==
  LET before == SubSeq(tup, 1, pre)
      after == IF post > 0 THEN SubSeq(tup, Len(tup) - post + 1, Len(tup))
               ELSE <<>>
      rest == IF post > 0 THEN SubSeq(tup, pre + 1, Len(tup) - post)
              ELSE SubSeq(tup, pre + 1, Len(tup))
  IN before \o <<build_list(rest)>> \o after

\* What a call of the next method of the iterator of the Variable gives: the
\* elements of its tuples, the T of its other iterables.
NextResult(nontuple_seq) ==
  UNION {IF data.kind = "tuple"
         THEN UNION {data.elems[i] : i \in 1..Len(data.elems)}
         ELSE {Obj("T", {})} : data \in nontuple_seq}

\* convert.build_content(elements)
build_content(elements) == UNION elements

\* convert.empty.to_variable(node)
empty_variable == {Obj("empty", {})}

\* tuple(build_content(value) for value in zip(*options)): zip of no option
\* is empty.
ZipOptions(options, count) ==
  IF options = {} THEN <<>>
  ELSE [i \in 1..count |-> build_content({o[i] : o \in options})]

\* The parameters of _unpack_sequence for an opcode and its argument.
UnpackBefore(op) == IF op.name = "UNPACK_EX" THEN op.arg % 256 ELSE op.arg

UnpackAfter(op) == IF op.name = "UNPACK_EX" THEN op.arg \div 256 ELSE -1

\* The unpacking opcodes of the analysed program.
UnpackOps ==
  {Op("UNPACK_SEQUENCE", n) : n \in 0..MaxArity}
  \cup {Op("UNPACK_EX", b + 256 * a) : b \in 0..MaxArity, a \in 0..1}

NoUnpack ==
  [phase |-> "idle", op |-> Op("", 0), n_before |-> 0, n_after |-> -1,
   count |-> 0, seq |-> {}, below |-> <<>>, options |-> {},
   nontuple_seq |-> {}, get_iter_calls |-> 0, next_calls |-> 0,
   data_stack |-> <<>>]

\* byte_UNPACK_SEQUENCE and byte_UNPACK_EX, and _unpack_sequence up to the
\* end of its loop: the pop of the Variable and the sorting of its bindings
\* into options and nontuple_seq.
UnpackSequence ==
  /\ unpack.phase = "idle"
  /\ \E op \in UnpackOps : \E seq \in SequenceVariables :
       \E below \in {<<>>, <<{Obj("int", {})}>>} :
         LET n_before == UnpackBefore(op)
             n_after == UnpackAfter(op)
             has_slurp == n_after > -1
             count == n_before + n_after + 1
             slurped == {b \in seq : /\ IsLiteralSequence(b)
                                     /\ has_slurp
                                     /\ Len(b.elems) >= count}
             exact == {b \in seq \ slurped : /\ IsLiteralSequence(b)
                                             /\ Len(b.elems) = count}
         IN unpack' = [NoUnpack EXCEPT
              !.phase = "sorted", !.op = op, !.n_before = n_before,
              !.n_after = n_after, !.count = count, !.seq = seq,
              !.below = below, !.data_stack = below,
              !.options = {restructure_tuple(b.elems, n_before, n_after) :
                             b \in slurped}
                          \cup {b.elems : b \in exact},
              !.nontuple_seq = seq \ (slurped \cup exact)]
  /\ UNCHANGED <<vm_vars, errorlog, convert_vars, operator_vars,
                 attribute_vars, iteration_vars, after_unpack_vars>>

\* The option of the bindings that are no literal of the right length: one
\* _get_iter, one call of next, and its result at every position.
IterateNonTuple ==
  /\ unpack.phase = "sorted"
  /\ unpack.nontuple_seq # {}
  /\ LET result == NextResult(unpack.nontuple_seq)
         option == [i \in 1..unpack.count |->
                      IF unpack.n_after > -1 /\ i = unpack.n_before + 1
                      THEN build_list_of_type(result)
                      ELSE result]
     IN unpack' = [unpack EXCEPT
          !.phase = "iterated",
          !.get_iter_calls = @ + 1,
          !.next_calls = @ + 1,
          !.options = @ \cup {option}]
  /\ UNCHANGED <<vm_vars, errorlog, convert_vars, operator_vars,
                 attribute_vars, iteration_vars, after_unpack_vars>>

\* The end of _unpack_sequence: the values of the positions, pushed from the
\* last to the first, the empty Variable in place of one without bindings.
PushValues ==
  /\ \/ unpack.phase = "iterated"
     \/ unpack.phase = "sorted" /\ unpack.nontuple_seq = {}
  /\ LET values == ZipOptions(unpack.options, unpack.count)
         pushed == [i \in 1..Len(values) |->
                      LET value == values[Len(values) + 1 - i]
                      IN IF value = {} THEN empty_variable ELSE value]
     IN unpack' = [unpack EXCEPT !.phase = "done",
                                 !.data_stack = @ \o pushed]
  /\ UNCHANGED <<vm_vars, errorlog, convert_vars, operator_vars,
                 attribute_vars, iteration_vars, after_unpack_vars>>

(***************************************************************************)
(* Part 7: the block stack (vm.py, SETUP_*, POP_BLOCK, BREAK_LOOP and      *)
(* CONTINUE_LOOP)                                                          *)
(***************************************************************************)

\* Largest number of opcodes run on the frame state.
MaxBlockOps == 5

\* Largest depth of the data stack.
MaxDepth == 3

\* The opcodes are numbered in the order they are run; the setup opcode with
\* number k has the target ExitTarget(k), and the loop it sets up is retested
\* at RetestTarget(k).
ExitTarget(k) == 2 * k

RetestTarget(k) == 2 * k - 1

Targets == 1..(2 * MaxBlockOps)

\* Block = namedtuple("Block", ["type", "op", "handler", "level"])
Block(type, op, handler, level) ==
  [type |-> type, op |-> op, handler |-> handler, level |-> level]

\* state.push_block(block) and state.pop_block()
state_push_block(state, block) ==
  [state EXCEPT !.block_stack = Append(@, block)]

state_pop_block(state) ==
  [state EXCEPT !.block_stack = SubSeq(@, 1, Len(@) - 1)]

top_block(state) == state.block_stack[Len(state.block_stack)]

\* vm.push_block(state, t, op, handler, level); the level -1 stands for None.
push_block(state, t, op, handler, level) ==
  state_push_block(state,
                   Block(t, op, handler,
                         IF level = -1 THEN Len(state.data_stack) ELSE level))

\* A loop that discards nothing.
pop_to_level_never(state, level) == state

\* while block.level < len(state.data_stack): state = state.pop_and_discard()
pop_to_level(state, level) ==
  IF level < Len(state.data_stack)
  THEN [state EXCEPT !.data_stack = SubSeq(@, 1, level)]
  ELSE state

\* vm._revert_state_to(state, name)
RECURSIVE revert_state_to(_, _)
revert_state_to(state, name) ==
  IF top_block(state).type = name THEN state
  ELSE revert_state_to(pop_to_level(state_pop_block(state),
                                    top_block(state).level),
                       name)

\* vm.push_abstract_exception(state)
push_abstract_exception(state) ==
  push(push(push(state, {"list"}), {"unknown"}), {"unknown"})

\* What a handler of a block opcode gives: the state it returns, frame.states,
\* and the state and the target it called store_jump with, if it did.
BlockOutcome(state, states, sent, target) ==
  [state |-> state, states |-> states, sent |-> sent, target |-> target]

byte_SETUP_LOOP(state, states, op) ==
  BlockOutcome(push_block(state, "loop", op, op.arg, -1), states, NoState, 0)

byte_SETUP_EXCEPT(state, states, op) ==
  LET sent == push_abstract_exception(state) IN
  BlockOutcome(push_block(state, "setup-except", op, op.arg, -1),
               store_jump(states, op.arg, sent), sent, op.arg)

byte_SETUP_FINALLY(state, states, op) ==
  LET sent == push(state, {"None"}) IN
  BlockOutcome(push_block(state, "finally", op, op.arg, -1),
               store_jump(states, op.arg, sent), sent, op.arg)

byte_SETUP_WITH(state, states, op, python_version) ==
  LET popped == pop_and_discard(state)
      level == Len(popped.data_stack)
      with_exit == push(popped, {"__exit__"})
      blocked == push_block(with_exit,
                            IF python_version = 2 THEN "with" ELSE "finally",
                            op, op.arg, level)
  IN BlockOutcome(push(blocked, {"ctxmgr_obj"}), states, NoState, 0)

byte_POP_BLOCK(state, states, op) ==
  BlockOutcome(state_pop_block(state), states, NoState, 0)

byte_BREAK_LOOP(state, states, op) ==
  LET reverted == revert_state_to(state, "loop")
      new_state == pop_to_level(state_pop_block(reverted),
                                top_block(reverted).level)
  IN BlockOutcome(state, store_jump(states, op.arg, new_state), new_state,
                  op.arg)

\* A CONTINUE_LOOP that leaves the loop as BREAK_LOOP does.
byte_CONTINUE_LOOP_as_break(state, states, op) ==
  LET reverted == revert_state_to(state, "loop")
      new_state == pop_to_level(state_pop_block(reverted),
                                top_block(reverted).level)
  IN BlockOutcome(state, store_jump(states, op.arg, new_state), new_state,
                  op.arg)

byte_CONTINUE_LOOP(state, states, op) ==
  LET new_state == revert_state_to(state, "loop")
  IN BlockOutcome(state, store_jump(states, op.arg, new_state), new_state,
                  op.arg)

\* The index in the block stack of the nearest enclosing loop block, 0 when
\* there is none.
NearestLoop(state) ==
  LET loops == {i \in 1..Len(state.block_stack) :
                  state.block_stack[i].type = "loop"}
  IN IF loops = {} THEN 0 ELSE CHOOSE i \in loops : \A j \in loops : j <= i

\* The level below which the code of the innermost block does not pop.
BlockFloor(state) ==
  IF state.block_stack = <<>> THEN 0 ELSE top_block(state).level

NoLast == [op |-> Op("", 0), before |-> NoState, sent |-> NoState, target |-> 0]

NoBlockRun(python_version) ==
  [python_version |-> python_version, steps |-> 0,
   state |-> InitState(root_cfg_node),
   states |-> [t \in Targets |-> NoState], last |-> NoLast]

\* The frame state and frame.states after a handler, and what it did.
AfterBlockOp(op, out) ==
  [blockrun EXCEPT !.steps = @ + 1, !.state = out.state,
                   !.states = out.states,
                   !.last = [op |-> op, before |-> blockrun.state,
                             sent |-> out.sent, target |-> out.target]]

\* An opcode that pushes a Variable, here byte_LOAD_CONST.
PushValue ==
  /\ blockrun.steps < MaxBlockOps
  /\ Len(blockrun.state.data_stack) < MaxDepth
  /\ LET op == Op("LOAD_CONST", "ctxmgr") IN
     blockrun' = AfterBlockOp(op, BlockOutcome(push(blockrun.state, {op.arg}),
                                               blockrun.states, NoState, 0))
  /\ UNCHANGED <<vm_vars, errorlog, convert_vars, operator_vars,
                 attribute_vars, iteration_vars, unpack_vars,
                 after_block_vars>>

\* An opcode that pops a Variable, here byte_POP_TOP.
PopValue ==
  /\ blockrun.steps < MaxBlockOps
  /\ Len(blockrun.state.data_stack) > BlockFloor(blockrun.state)
  /\ LET op == Op("POP_TOP", 0) IN
     blockrun' = AfterBlockOp(op, BlockOutcome(pop_and_discard(blockrun.state),
                                               blockrun.states, NoState, 0))
  /\ UNCHANGED <<vm_vars, errorlog, convert_vars, operator_vars,
                 attribute_vars, iteration_vars, unpack_vars,
                 after_block_vars>>

SetupLoop ==
  /\ blockrun.steps < MaxBlockOps
  /\ LET op == Op("SETUP_LOOP", ExitTarget(blockrun.steps + 1)) IN
     blockrun' = AfterBlockOp(op, byte_SETUP_LOOP(blockrun.state,
                                                  blockrun.states, op))
  /\ UNCHANGED <<vm_vars, errorlog, convert_vars, operator_vars,
                 attribute_vars, iteration_vars, unpack_vars,
                 after_block_vars>>

SetupExcept ==
  /\ blockrun.steps < MaxBlockOps
  /\ LET op == Op("SETUP_EXCEPT", ExitTarget(blockrun.steps + 1)) IN
     blockrun' = AfterBlockOp(op, byte_SETUP_EXCEPT(blockrun.state,
                                                    blockrun.states, op))
  /\ UNCHANGED <<vm_vars, errorlog, convert_vars, operator_vars,
                 attribute_vars, iteration_vars, unpack_vars,
                 after_block_vars>>

SetupFinally ==
  /\ blockrun.steps < MaxBlockOps
  /\ LET op == Op("SETUP_FINALLY", ExitTarget(blockrun.steps + 1)) IN
     blockrun' = AfterBlockOp(op, byte_SETUP_FINALLY(blockrun.state,
                                                     blockrun.states, op))
  /\ UNCHANGED <<vm_vars, errorlog, convert_vars, operator_vars,
                 attribute_vars, iteration_vars, unpack_vars,
                 after_block_vars>>

\* SETUP_WITH finds the context manager on the stack, pushed by the code of
\* the innermost block.
SetupWith ==
  /\ blockrun.steps < MaxBlockOps
  /\ Len(blockrun.state.data_stack) > BlockFloor(blockrun.state)
  /\ LET op == Op("SETUP_WITH", ExitTarget(blockrun.steps + 1)) IN
     blockrun' = AfterBlockOp(op, byte_SETUP_WITH(blockrun.state,
                                                  blockrun.states, op,
                                                  blockrun.python_version))
  /\ UNCHANGED <<vm_vars, errorlog, convert_vars, operator_vars,
                 attribute_vars, iteration_vars, unpack_vars,
                 after_block_vars>>

PopBlock ==
  /\ blockrun.steps < MaxBlockOps
  /\ blockrun.state.block_stack # <<>>
  /\ LET op == Op("POP_BLOCK", 0) IN
     blockrun' = AfterBlockOp(op, byte_POP_BLOCK(blockrun.state,
                                                 blockrun.states, op))
  /\ UNCHANGED <<vm_vars, errorlog, convert_vars, operator_vars,
                 attribute_vars, iteration_vars, unpack_vars,
                 after_block_vars>>

\* BREAK_LOOP inside a loop; its block_target is the target of the SETUP_LOOP
\* of the nearest enclosing loop.  The state it sends has the depths of the
\* state already recorded there, as the states of compiled code have.
BreakLoop ==
  /\ blockrun.steps < MaxBlockOps
  /\ NearestLoop(blockrun.state) > 0
  /\ LET loop == blockrun.state.block_stack[NearestLoop(blockrun.state)]
         op == Op("BREAK_LOOP", loop.op.arg)
         reverted == revert_state_to(blockrun.state, "loop")
     IN /\ MergeAsserts(pop_to_level(state_pop_block(reverted),
                                     top_block(reverted).level),
                        blockrun.states[op.arg])
        /\ blockrun' = AfterBlockOp(op, byte_BREAK_LOOP(blockrun.state,
                                                        blockrun.states, op))
  /\ UNCHANGED <<vm_vars, errorlog, convert_vars, operator_vars,
                 attribute_vars, iteration_vars, unpack_vars,
                 after_block_vars>>

\* CONTINUE_LOOP inside a loop; its target is where the nearest enclosing
\* loop is retested.  The state it sends has the depths of the state already
\* recorded there, as the states of compiled code have.
ContinueLoop ==
  /\ blockrun.steps < MaxBlockOps
  /\ NearestLoop(blockrun.state) > 0
  /\ LET loop == blockrun.state.block_stack[NearestLoop(blockrun.state)]
         op == Op("CONTINUE_LOOP", loop.op.arg - 1)
     IN /\ MergeAsserts(revert_state_to(blockrun.state, "loop"),
                        blockrun.states[op.arg])
        /\ blockrun' = AfterBlockOp(op, byte_CONTINUE_LOOP(blockrun.state,
                                                           blockrun.states, op))
  /\ UNCHANGED <<vm_vars, errorlog, convert_vars, operator_vars,
                 attribute_vars, iteration_vars, unpack_vars,
                 after_block_vars>>

(***************************************************************************)
(* Part 8: the opcodes that raise (vm.py, RAISE_VARARGS, do_raise and      *)
(* END_FINALLY)                                                            *)
(***************************************************************************)

\* Largest number of opcodes run on the frame state.
MaxRaiseOps == 4

\* The Variables the code pushes before it raises: at most one binding, or
\* None together with an instance.
RaisedVariables ==
  {v \in ObjectVariables : Len(v) <= 1}
    \cup {<<[data |-> "None", visible |-> TRUE],
            [data |-> "a", visible |-> TRUE]>>}

\* The exception recorded in a state (state.exception, state.last_exception):
\* none, one without a traceback, one with a traceback.
NoException == "none"

\* state.set_exception(exc_type, value, tb)
set_exception(has_tb) == IF has_tb THEN "tb" ELSE "no_tb"

\* What a handler of an opcode that raises did: the Python exception it
\* raised ("" if none), the state it returned and the exception recorded in
\* it.
RaiseOutcome(exn, state, exception) ==
  [exn |-> exn, state |-> state, exception |-> exception]

\* state.pop() n times; the state is NoState when the stack is too short
\* (IndexError).
pop_n(state, n) ==
  IF Len(state.data_stack) < n THEN NoState
  ELSE [state EXCEPT !.data_stack = SubSeq(@, 1, Len(@) - n)]

byte_RAISE_VARARGS_PY2(state, exception, op) ==
  LET argc == op.arg
      popped == pop_n(state, argc)
      \* tb is the traceback of the recorded exception (argc 0) or the
      \* Variable popped for it (argc 3)
      tb == IF argc = 0 THEN exception = "tb" ELSE argc = 3
  IN
  IF argc = 0 /\ exception = NoException
  THEN RaiseOutcome("ByteCodeException", state, exception)
  ELSE IF ~popped.some
  THEN RaiseOutcome("IndexError", state, exception)
  ELSE RaiseOutcome("", set_why(popped, IF tb THEN "reraise" ELSE "exception"),
                    set_exception(tb))

\* vm.do_raise(state, exc, cause) for exc None or a Variable: a Variable is
\* neither a type nor an instance of BaseException.
do_raise(state, exception, last_exception, exc_is_none) ==
  IF exc_is_none
  THEN IF last_exception = NoException
       THEN RaiseOutcome("", set_why(state, "exception"), exception)
       ELSE RaiseOutcome("", set_why(state, "reraise"), exception)
  ELSE RaiseOutcome("", state, exception)

byte_RAISE_VARARGS_PY3(state, exception, last_exception, op) ==
  LET argc == op.arg
      popped == IF argc \in {1, 2} THEN pop_n(state, argc) ELSE state
  IN
  IF ~popped.some
  THEN RaiseOutcome("IndexError", state, exception)
  ELSE do_raise(popped, exception, last_exception, argc \notin {1, 2})

byte_RAISE_VARARGS_versions(state, exception, last_exception, op, python_version) ==
  IF python_version = 2
  THEN byte_RAISE_VARARGS_PY2(state, exception, op)
  ELSE byte_RAISE_VARARGS_PY3(state, exception, last_exception, op)

byte_END_FINALLY(state, exception, op) ==
  IF state.data_stack = <<>>
  THEN RaiseOutcome("IndexError", state, exception)
  ELSE
  LET exc == top(state)
      popped == pop_and_discard(state)
  IN
  IF is_only_none(exc)
  THEN RaiseOutcome("", popped, exception)
  ELSE IF ~pop_n(popped, 2).some
  THEN RaiseOutcome("IndexError", state, exception)
  ELSE RaiseOutcome("", set_why(pop_n(popped, 2), "reraise"), exception)

NoRaising(python_version, last_exception) ==
  [python_version |-> python_version, steps |-> 0,
   state |-> InitState(root_cfg_node),
   exception |-> NoException, last_exception |-> last_exception,
   last |-> [op |-> Op("", 0), exn |-> "", set |-> "", escaped |-> FALSE]]

\* run_instruction on a handler's outcome: the state it returns, or the
\* exception that escapes it; set is the reason the handler itself gave.
AfterRaiseOp(op, out) ==
  IF out.exn # "" /\ ~Caught(out.exn)
  THEN [raising EXCEPT
          !.steps = @ + 1,
          !.last = [op |-> op, exn |-> out.exn, set |-> "", escaped |-> TRUE]]
  ELSE [raising EXCEPT
          !.steps = @ + 1,
          !.state = InstructionState(raising.state, out),
          !.exception = IF out.exn = "" THEN out.exception
                        ELSE set_exception(FALSE),
          !.last = [op |-> op, exn |-> out.exn,
                    set |-> IF out.exn = "" THEN out.state.why ELSE "",
                    escaped |-> FALSE]]

\* run_frame goes on to the next opcode while no reason is set and no
\* exception escaped.
RaisePathOpen ==
  /\ raising.steps < MaxRaiseOps
  /\ raising.state.why = ""
  /\ ~raising.last.escaped

\* An opcode that pushes a Variable.
PushRaised ==
  /\ RaisePathOpen
  /\ Len(raising.state.data_stack) < MaxDepth
  /\ \E v \in RaisedVariables :
       raising' = [raising EXCEPT
                     !.steps = @ + 1,
                     !.state = push(raising.state, v),
                     !.last = [op |-> Op("LOAD_FAST", 0), exn |-> "",
                               set |-> "", escaped |-> FALSE]]
  /\ UNCHANGED <<vm_vars, errorlog, convert_vars, operator_vars,
                 attribute_vars, iteration_vars, unpack_vars, block_vars,
                 class_vars, after_class_vars>>

RaiseVarargs ==
  /\ RaisePathOpen
  /\ \E argc \in 0..3 :
       /\ argc = 3 => raising.python_version = 2
       /\ LET op == Op("RAISE_VARARGS", argc) IN
          raising' = AfterRaiseOp(op,
            byte_RAISE_VARARGS_versions(raising.state, raising.exception,
                                        raising.last_exception, op,
                                        raising.python_version))
  /\ UNCHANGED <<vm_vars, errorlog, convert_vars, operator_vars,
                 attribute_vars, iteration_vars, unpack_vars, block_vars,
                 class_vars, after_class_vars>>

EndFinally ==
  /\ RaisePathOpen
  /\ LET op == Op("END_FINALLY", 0) IN
     raising' = AfterRaiseOp(op, byte_END_FINALLY(raising.state,
                                                  raising.exception, op))
  /\ UNCHANGED <<vm_vars, errorlog, convert_vars, operator_vars,
                 attribute_vars, iteration_vars, unpack_vars, block_vars,
                 class_vars, after_class_vars>>

(***************************************************************************)
(* Part 9: the construction of classes (vm.py, make_class)                 *)
(***************************************************************************)

\* Most make_class calls of one behaviour.
MaxMakeClass == 1

\* Most base Variables of one make_class call.
MaxBases == 2

\* Converter.oldstyleclass_type, the class of the old-style classes.
oldstyleclass_type == Value("PyTDClass", "classobj", "", 12)

\* A Variable of this part is the sequence of the data of its bindings, in
\* the order they were added.  An optional Variable is None or a Variable.
NoVariable == [none |-> TRUE, data |-> <<>>]

SomeVariable(data) == [none |-> FALSE, data |-> data]

\* Variable.AddBinding(data, ...): a Variable has one binding for each data.
AddBinding(var, data) ==
  IF \E i \in 1..Len(var) : var[i] = data THEN var ELSE Append(var, data)

RECURSIVE AddBindings(_, _)
AddBindings(var, options) ==
  IF options = <<>> THEN var
  ELSE AddBindings(AddBinding(var, Head(options)), Tail(options))

\* abstract.AnnotationContainer(name, vm, base_cls)
AnnotationContainer(base_cls) ==
  [tag |-> "AnnotationContainer", pyval |-> "", cls |-> "", id |-> 0,
   base_cls |-> base_cls]

\* isinstance(t, abstract.Class)
IsClass(t) ==
  t.tag \in {"PyTDClass", "InterpreterClass", "ParameterizedClass",
             "TupleClass", "Callable"}

\* isinstance(t, abstract.AMBIGUOUS_OR_EMPTY)
IsAmbiguousOrEmpty(t) == t.tag \in {"Unsolvable", "Unknown", "Empty"}

\* A flattening that adds a union itself instead of its options.
RECURSIVE flatten_keeping_unions(_, _)
flatten_keeping_unions(bindings, new_base) ==
  IF bindings = <<>> THEN new_base
  ELSE LET b == Head(bindings) IN
       flatten_keeping_unions(Tail(bindings),
         IF b.tag = "AnnotationContainer"
         THEN AddBinding(new_base, b.base_cls)
         ELSE AddBinding(new_base, b))

\* The loop of _process_base_class over base.bindings: the base class of an
\* AnnotationContainer, the options of a Union, any other data as it is.
RECURSIVE flatten(_, _)
flatten(bindings, new_base) ==
  IF bindings = <<>> THEN new_base
  ELSE LET b == Head(bindings) IN
       flatten(Tail(bindings),
         IF b.tag = "AnnotationContainer"
         THEN AddBinding(new_base, b.base_cls)
         ELSE IF b.tag = "Union" THEN AddBindings(new_base, b.options)
         ELSE AddBinding(new_base, b))

\* _process_base_class(node, base): the new base and what it reports.
process_base_class(base) ==
  LET new_base == flatten(base, <<>>) IN
  [base |-> new_base,
   errors |-> IF \E i \in 1..Len(new_base) :
                   IsClass(new_base[i]) \/ IsAmbiguousOrEmpty(new_base[i])
              THEN <<>>
              ELSE <<[error |-> "base_class_error", base |-> new_base]>>]

\* sum((b.data for b in bases), [])
RECURSIVE concat_lists(_)
concat_lists(lists) ==
  IF lists = <<>> THEN <<>> ELSE Head(lists) \o concat_lists(Tail(lists))

\* abstract.Dict whose members hold the Variable __metaclass__ or not.
ClassDict(metaclass) ==
  [tag |-> "Dict", pyval |-> "", cls |-> "dict", id |-> 0,
   members_metaclass |-> metaclass]

\* abstract.InterpreterClass(name, bases, members, cls, vm) when its
\* linearization succeeds.
InterpreterClass(name, bases, cls, mro) ==
  [tag |-> "InterpreterClass", pyval |-> name, cls |-> cls, id |-> 0,
   bases |-> bases, mro |-> mro]

\* abstract.Unknown(vm), the value of create_new_unknown.
Unknown == Value("Unknown", "", "", 0)

\* Converter.create_new_unknown(node): the unsolvable value when the vm does
\* not generate unknowns.
create_new_unknown(generate_unknowns) ==
  IF generate_unknowns THEN <<Unknown>> ELSE <<unsolvable>>

\* Converter.create_new_unsolvable(node)
create_new_unsolvable == <<unsolvable>>

BuiltinType == "__builtin__.type"

\* A metaclass test that looks at the first binding only.
is_builtin_type_first(cls_var) ==
  /\ ~cls_var.none
  /\ cls_var.data # <<>> => cls_var.data[1].full_name = BuiltinType

\* cls_var and all(v.data.full_name == "__builtin__.type"
\*                 for v in cls_var.bindings)
is_builtin_type(cls_var) ==
  /\ ~cls_var.none
  /\ \A i \in 1..Len(cls_var.data) : cls_var.data[i].full_name = BuiltinType

\* make_class(node, name_var, bases, class_dict_var, cls_var).  get_atomic_value
\* raises ConversionError unless class_dict_var has one binding.  The bases
\* modelled hold no class with type parameters and the class body no
\* abstract method, so not_supported_yet and ignored_abstractmethod are not
\* reported.  The result: var is what make_class returns, built whether
\* InterpreterClass was called, bases and cls what it was called with, errors
\* what errorlog receives.
make_class(name, bases, class_dict_var, cls_var, generate_unknowns) ==
  LET processed == [i \in 1..Len(bases) |-> process_base_class(bases[i])]
      new_bases == IF bases = <<>> THEN << <<oldstyleclass_type>> >>
                   ELSE [i \in 1..Len(bases) |-> processed[i].base]
      base_errors ==
        concat_lists([i \in 1..Len(bases) |-> processed[i].errors])
      class_dict == class_dict_var[1]
      resolved == IF cls_var.none THEN class_dict.members_metaclass
                  ELSE cls_var
      cls == IF is_builtin_type(resolved) THEN NoVariable ELSE resolved
      mro == compute_mro(name, concat_lists(new_bases))
  IN
  IF Len(class_dict_var) # 1
  THEN [var |-> create_new_unknown(generate_unknowns), built |-> FALSE,
        flattened |-> FALSE, bases |-> <<>>, cls |-> NoVariable,
        errors |-> <<>>]
  ELSE IF class_dict.tag = "Unsolvable"
  THEN [var |-> create_new_unsolvable, built |-> FALSE, flattened |-> TRUE,
        bases |-> new_bases, cls |-> NoVariable, errors |-> base_errors]
  ELSE IF ~mro.ok
  THEN [var |-> create_new_unsolvable, built |-> TRUE, flattened |-> TRUE,
        bases |-> new_bases, cls |-> cls,
        errors |-> base_errors \o
                     <<[error |-> "mro_error", name |-> name,
                        mro_seqs |-> mro.seqs]>>]
  ELSE [var |-> <<InterpreterClass(name, new_bases, cls, mro.mro)>>,
        built |-> TRUE, flattened |-> TRUE, bases |-> new_bases, cls |-> cls,
        errors |-> base_errors]

\* No make_class call yet.
NoMakeClass ==
  [steps |-> 0, name |-> "", bases |-> <<>>, class_dict_var |-> <<>>,
   cls_var |-> NoVariable, generate_unknowns |-> FALSE, log_from |-> 0,
   out |-> [var |-> <<>>, built |-> FALSE, flattened |-> FALSE,
            bases |-> <<>>, cls |-> NoVariable, errors |-> <<>>]]

\* The values the program can name as a base: the declared classes A, B and C
\* as the converter holds them, the unsolvable value, the None instance (no
\* class), typing.List (an annotation container of the class list) and the
\* union of A and B.
DeclaredClassValues ==
  {convert_cache[k] : k \in {k \in DOMAIN convert_cache :
                               /\ k = ConstantKey(k.pyval)
                               /\ k.pyval.kind = "Class"
                               /\ k.pyval.name \in {"A", "B", "C"}
                               /\ convert_cache[k] # InProgress}}

BaseData ==
  DeclaredClassValues
    \cup {unsolvable, none, AnnotationContainer(list_type)}
    \cup {Union(<<a, b>>, 0) :
            a \in {v \in DeclaredClassValues : v.pyval = "A"},
            b \in {v \in DeclaredClassValues : v.pyval = "B"}}

\* The base Variables: one binding, or a union after one of its options.
BaseVariables ==
  {<<d>> : d \in BaseData}
    \cup {<<u.options[1], u>> : u \in {d \in BaseData : d.tag = "Union"}}

BaseLists == UNION {[1..n -> BaseVariables] : n \in 0..MaxBases}

\* The metaclasses: type itself and a class M derived from it.
Metaclass(full_name) ==
  [tag |-> "PyTDClass", pyval |-> full_name, cls |-> "", id |-> 0,
   full_name |-> full_name]

MetaclassVariables ==
  {SomeVariable(<<Metaclass(BuiltinType)>>), SomeVariable(<<Metaclass("M")>>),
   SomeVariable(<<Metaclass(BuiltinType), Metaclass("M")>>)}

\* The Variables of the class body: one dictionary with or without the member
\* __metaclass__, the unsolvable value, or two dictionaries.
ClassDictVariables ==
  {<<ClassDict(m)>> : m \in {NoVariable} \cup MetaclassVariables}
    \cup {<<unsolvable>>, <<ClassDict(NoVariable), unsolvable>>}

\* The program builds the class X while no conversion is running.
MakeClass ==
  /\ calls = <<>>
  /\ mkclass.steps < MaxMakeClass
  /\ \E bases \in BaseLists, class_dict_var \in ClassDictVariables,
        cls_var \in {NoVariable} \cup MetaclassVariables,
        generate_unknowns \in BOOLEAN :
       LET out == make_class("X", bases, class_dict_var, cls_var,
                             generate_unknowns) IN
       /\ mkclass' = [steps |-> mkclass.steps + 1, name |-> "X",
                      bases |-> bases, class_dict_var |-> class_dict_var,
                      cls_var |-> cls_var,
                      generate_unknowns |-> generate_unknowns,
                      log_from |-> Len(errorlog), out |-> out]
       /\ errorlog' = errorlog \o out.errors
  /\ UNCHANGED <<vm_vars, convert_vars, operator_vars, attribute_vars,
                 iteration_vars, unpack_vars, block_vars, raise_vars,
                 after_class_vars>>

(***************************************************************************)
(* Part 10: function type comments (vm.py, _process_function_type_comment) *)
(***************************************************************************)

\* Most _process_function_type_comment calls of one behaviour.
MaxComments == 1

\* A comment is a sequence of tokens: "(", ")", "->", " " for white space,
\* and any other token for a run of other characters.
CommentIntToStr == <<"(", "int", ")", " ", "->", " ", "str">>

CommentEllipsis == <<"(", "...", ")", "->", "int", " ">>

CommentNested == <<"(", "(", "int", ")", ")", " ", "->", "int">>

CommentNoParens == <<"int", " ", "->", " ", "str">>

CommentNoReturn == <<"(", "int", ")", " ", "->", " ">>

CommentNoArrow == <<"(", "int", ")", " ", "str">>

Comments ==
  {CommentIntToStr, CommentEllipsis, CommentNested, CommentNoParens,
   CommentNoReturn, CommentNoArrow}

\* The comments of the form (args) -> ret among them.
WellFormedComments == {CommentIntToStr, CommentEllipsis, CommentNested}

\* The first position from i on that holds no white space, Len(c) + 1 when
\* there is none.
RECURSIVE SkipSpace(_, _)
SkipSpace(c, i) ==
  IF i > Len(c) \/ c[i] # " " THEN i ELSE SkipSpace(c, i + 1)

\* The last position that holds no white space, 0 when there is none.
RECURSIVE LastNonSpace(_, _)
LastNonSpace(c, i) ==
  IF i = 0 \/ c[i] # " " THEN i ELSE LastNonSpace(c, i - 1)

\* str.strip()
strip(c) == SubSeq(c, SkipSpace(c, 1), LastNonSpace(c, Len(c)))

\* The positions of a ")" that "\)\s*->\s*(\S" can match at.
ClosingPositions(c) ==
  {p \in 2..Len(c) :
     /\ c[p] = ")"
     /\ SkipSpace(c, p + 1) <= Len(c)
     /\ c[SkipSpace(c, p + 1)] = "->"
     /\ SkipSpace(c, SkipSpace(c, p + 1) + 1) <= Len(c)}

\* A match that takes any text before the arrow for the arguments.
FunctionTypeCommentMatchAnyArgs(c) ==
  LET arrows == {a \in 2..Len(c) : c[a] = "->" /\ SkipSpace(c, a + 1) <= Len(c)}
      a == CHOOSE x \in arrows : \A y \in arrows : y <= x
  IN IF arrows = {}
     THEN [matched |-> FALSE, args |-> <<>>, return_type |-> <<>>]
     ELSE [matched |-> TRUE, args |-> SubSeq(c, 1, a - 1),
           return_type |-> SubSeq(c, SkipSpace(c, a + 1),
                                  LastNonSpace(c, Len(c)))]

\* _FUNCTION_TYPE_COMMENT_RE.match(comment), the expression
\* ^\((.*)\)\s*->\s*(\S.*?)\s*$ : the arguments are taken greedily, the
\* return type without the white space around it.
FunctionTypeCommentMatch(c) ==
  LET closing == ClosingPositions(c)
      p == CHOOSE x \in closing : \A y \in closing : y <= x
      r == SkipSpace(c, SkipSpace(c, p + 1) + 1)
  IN IF c = <<>> \/ c[1] # "(" \/ closing = {}
     THEN [matched |-> FALSE, args |-> <<>>, return_type |-> <<>>]
     ELSE [matched |-> TRUE, args |-> SubSeq(c, 2, p - 1),
           return_type |-> SubSeq(c, r, LastNonSpace(c, Len(c)))]

\* function.MULTI_ARG_ANNOTATION
MULTI_ARG_ANNOTATION == "$MULTI$"

\* annotations_util.LateAnnotation(expr, name, stack); the stack is the line
\* of the opcode it was made for.
LateAnnotation(expr, name, line) == [expr |-> expr, name |-> name, line |-> line]

\* An entry of director.type_comments: None, or the source text of the line
\* ("" for a line that holds the comment only) and the comment.
NoEntry == [none |-> TRUE, src |-> "", comment |-> <<>>]

Entry(src, comment) == [none |-> FALSE, src |-> src, comment |-> comment]

\* A dictionary of annotations is a set of pairs of a name and a value.
annotate(dict, name, value) ==
  {e \in dict : e.name # name} \cup {[name |-> name, value |-> value]}

\* _process_function_type_comment(op, code_var, annotations,
\* late_annotations).  op is the line of the opcode (0 for None) and whether
\* its file is the file under analysis; first_line is the line of the first
\* opcode of the function's code, 0 when the code is empty.  The result holds
\* the two dictionaries after the call and what errorlog receives.
process_function_type_comment(op, first_line, type_comments, annotations, late_annotations) ==
  LET unchanged == [annotations |-> annotations,
                    late_annotations |-> late_annotations,
                    found |-> FALSE, lineno |-> 0, errors |-> <<>>]
      bare == {n \in (op.line + 1)..(first_line - 1) :
                 /\ n \in DOMAIN type_comments
                 /\ ~type_comments[n].none
                 /\ type_comments[n].src = ""}
      lineno == CHOOSE n \in bare : \A k \in bare : n <= k
      comment == type_comments[lineno].comment
      m == FunctionTypeCommentMatch(comment)
      with_args ==
        IF m.args # <<"...">>
        THEN annotate(late_annotations, MULTI_ARG_ANNOTATION,
                 LateAnnotation(strip(m.args), MULTI_ARG_ANNOTATION, lineno))
        ELSE late_annotations
  IN
  IF ~op.same_file \/ op.line = 0 THEN unchanged
  ELSE IF first_line = 0 THEN unchanged
  ELSE IF bare = {} \/ comment = <<>> THEN unchanged
  ELSE IF annotations # {} \/ late_annotations # {}
  THEN [unchanged EXCEPT !.found = TRUE, !.lineno = lineno,
          !.errors = <<[error |-> "redundant_function_type_comment",
                        lineno |-> lineno]>>]
  ELSE IF ~m.matched
  THEN [unchanged EXCEPT !.found = TRUE, !.lineno = lineno,
          !.errors = <<[error |-> "invalid_function_type_comment",
                        lineno |-> lineno, comment |-> comment]>>]
  ELSE [annotations |-> annotations,
        late_annotations |->
          annotate(with_args, "return",
              LateAnnotation(m.return_type, "return", lineno)),
        found |-> TRUE, lineno |-> lineno, errors |-> <<>>]

\* No _process_function_type_comment call yet.
NoFunctionComment ==
  [steps |-> 0, op |-> [line |-> 0, same_file |-> FALSE], first_line |-> 0,
   type_comments |-> <<>>, annotations |-> {}, late_annotations |-> {},
   log_from |-> 0,
   out |-> [annotations |-> {}, late_annotations |-> {}, found |-> FALSE,
            lineno |-> 0, errors |-> <<>>]]

\* The lines of a module of four lines: MAKE_FUNCTION is on line 1 (or has
\* no line), the comments are on the lines 2 and 3.
CommentLines == {2, 3}

CommentEntries ==
  {NoEntry} \cup {Entry(src, c) : src \in {"", "x = 1"}, c \in Comments}

AnnotationDicts == {{}, {[name |-> "x", value |-> "int"]}}

LateAnnotationDicts ==
  {{}, {[name |-> "y", value |-> LateAnnotation(<<"Foo">>, "y", 1)]}}

\* MAKE_FUNCTION calls _process_function_type_comment for a function.
ProcessFunctionTypeComment ==
  /\ fncomment.steps < MaxComments
  /\ \E line \in {0, 1}, same_file \in BOOLEAN, first_line \in {0, 2, 3, 4},
        second \in CommentEntries, third \in CommentEntries,
        annotations \in AnnotationDicts,
        late_annotations \in LateAnnotationDicts :
       LET op == [line |-> line, same_file |-> same_file]
           type_comments == [n \in 1..3 |->
                               IF n = 2 THEN second
                               ELSE IF n = 3 THEN third ELSE NoEntry]
           out == process_function_type_comment(op, first_line, type_comments,
                                                annotations, late_annotations)
       IN /\ fncomment' = [steps |-> fncomment.steps + 1, op |-> op,
                           first_line |-> first_line,
                           type_comments |-> type_comments,
                           annotations |-> annotations,
                           late_annotations |-> late_annotations,
                           log_from |-> Len(errorlog), out |-> out]
          /\ errorlog' = errorlog \o out.errors
  /\ UNCHANGED <<vm_vars, convert_vars, upto_class_vars, comment_others>>

(***************************************************************************)
(* Part 11: functions with late annotations (vm.py, _make_function and     *)
(* run_program)                                                            *)
(***************************************************************************)

\* Most functions the bytecode of one module creates.
MaxFunctions == 3

\* Most CFG nodes the bytecode of one module moves through.
MaxProgramNodes == 3

\* A test that queues every function.
is_queued_always(late_annotations) == TRUE

\* if late_annotations: a dictionary with an entry.
is_queued(late_annotations) == late_annotations # {}

\* run_program has not been called: the vm is constructed,
\* functions_with_late_annotations is empty.  created lists the functions
\* _make_function has made, checked the ones whose signature had its type
\* parameters counted, evaluated the eval_late_annotations calls made.
NoProgram ==
  [phase |-> "constructed", node |-> 0, final_node |-> 0,
   functions_with_late_annotations |-> <<>>, created |-> <<>>,
   checked |-> <<>>, evaluated |-> <<>>]

\* run_program: up to the call of run_bytecode at the node "init".
RunProgram ==
  /\ lateq.phase = "constructed"
  /\ lateq' = [lateq EXCEPT !.phase = "bytecode", !.node = 1]
  /\ UNCHANGED <<vm_vars, errorlog, convert_vars, upto_class_vars,
                 queue_others>>

\* The bytecode moves on to a new CFG node.
NewProgramNode ==
  /\ lateq.phase = "bytecode"
  /\ lateq.node < MaxProgramNodes
  /\ lateq' = [lateq EXCEPT !.node = @ + 1]
  /\ UNCHANGED <<vm_vars, errorlog, convert_vars, upto_class_vars,
                 queue_others>>

\* _make_function, called by MAKE_FUNCTION or MAKE_CLOSURE while the bytecode
\* runs: the function val is new; it is appended to
\* functions_with_late_annotations when late_annotations is not empty, and
\* has check_type_parameter_count called on its signature otherwise.
MakeFunction ==
  /\ lateq.phase = "bytecode"
  /\ Len(lateq.created) < MaxFunctions
  /\ \E late_annotations \in LateAnnotationDicts :
       LET val == Len(lateq.created) + 1 IN
       lateq' =
         [lateq EXCEPT
            !.created = Append(@, [val |-> val,
                                   late_annotations |-> late_annotations,
                                   node |-> lateq.node]),
            !.functions_with_late_annotations =
              IF is_queued(late_annotations) THEN Append(@, val) ELSE @,
            !.checked =
              IF is_queued(late_annotations) THEN @ ELSE Append(@, val)]
  /\ UNCHANGED <<vm_vars, errorlog, convert_vars, upto_class_vars,
                 queue_others>>

\* run_bytecode returns its last node to run_program.
FinishBytecode ==
  /\ lateq.phase = "bytecode"
  /\ lateq' = [lateq EXCEPT !.phase = "postprocessing",
                            !.final_node = lateq.node]
  /\ UNCHANGED <<vm_vars, errorlog, convert_vars, upto_class_vars,
                 queue_others>>

\* One round of "for func in self.functions_with_late_annotations":
\* eval_late_annotations(node, func, f_globals).
EvalLateAnnotations ==
  /\ lateq.phase = "postprocessing"
  /\ Len(lateq.evaluated) < Len(lateq.functions_with_late_annotations)
  /\ lateq' =
       [lateq EXCEPT
          !.evaluated =
            Append(@, [func |-> lateq.functions_with_late_annotations[
                                  Len(lateq.evaluated) + 1],
                       node |-> lateq.final_node])]
  /\ UNCHANGED <<vm_vars, errorlog, convert_vars, upto_class_vars,
                 queue_others>>

\* The loop is over and run_program returns.  What it does in between, setting
\* the late annotations of the globals as attributes of the module, reads
\* and writes nothing of the functions.
FinishProgram ==
  /\ lateq.phase = "postprocessing"
  /\ Len(lateq.evaluated) = Len(lateq.functions_with_late_annotations)
  /\ lateq' = [lateq EXCEPT !.phase = "returned"]
  /\ UNCHANGED <<vm_vars, errorlog, convert_vars, upto_class_vars,
                 queue_others>>

(***************************************************************************)
(* Part 12: calling a Variable of functions (vm.py, call_function)         *)
(***************************************************************************)

\* Most call_function calls of one behaviour.
MaxCallFunction == 1

\* Most bindings of the Variable of functions.
MaxCandidates == 3

\* The node call_function is called at.
CallNode == root_cfg_node + 1

\* No error yet: the None that call_function starts from.
NoError == [none |-> TRUE, kind |-> "", rank |-> 0, name |-> ""]

\* abstract.DictKeyMissing(name) and abstract.FailedFunctionCall; rank is the
\* place of the error in the order that > compares by.
FunctionError(kind, rank) ==
  [none |-> FALSE, kind |-> kind, rank |-> rank,
   name |-> IF kind = "DictKeyMissing" THEN "key" ELSE ""]

\* What func.call(node, funcv, args) does for one binding of funcu: it
\* returns a node and a Variable (its data), or raises an error.
CallReturns(name, new_node, data) ==
  [name |-> name, error |-> NoError, new_node |-> new_node, data |-> data]

CallRaises(name, error) ==
  [name |-> name, error |-> error, new_node |-> 0, data |-> {}]

\* A comparison that takes every later error for the greater one.
is_greater_always(e, error) == TRUE

\* e > error, error being None or an error raised before.
is_greater(e, error) == error.none \/ e.rank > error.rank

\* The loop of call_function over funcu.bindings from binding i on: the
\* data pasted into result, the nodes of the calls that returned and the
\* greatest error so far.
RECURSIVE call_bindings(_, _, _, _, _)
call_bindings(funcu, i, result, nodes, error) ==
  IF i > Len(funcu) THEN [result |-> result, nodes |-> nodes, error |-> error]
  ELSE IF ~funcu[i].error.none
  THEN call_bindings(funcu, i + 1, result, nodes,
                     IF is_greater(funcu[i].error, error) THEN funcu[i].error
                     ELSE error)
  ELSE call_bindings(funcu, i + 1, result \cup funcu[i].data,
                     Append(nodes, funcu[i].new_node), error)

\* call_function(node, funcu, args, fallback_to_unsolvable); nn is the number
\* of CFG nodes so far.  raised is the error that leaves call_function, errors
\* what errorlog receives.  _call_with_fake_args returns the node and a new
\* Variable of the unsolvable value, as the line after it does.
vm_call_function(node, funcu, fallback_to_unsolvable, nn) ==
  LET loop == call_bindings(funcu, 1, {}, <<>>, NoError)
      joined == join_cfg_nodes(loop.nodes, nn)
  IN
  IF loop.nodes # <<>>
  THEN [raised |-> NoError, node |-> joined,
        result |-> IF loop.result = {} THEN {"unsolvable"} ELSE loop.result,
        errors |-> <<>>]
  ELSE IF fallback_to_unsolvable
  THEN [raised |-> NoError, node |-> node, result |-> {"unsolvable"},
        errors |-> IF loop.error.kind = "DictKeyMissing"
                   THEN <<[error |-> "key_error", name |-> loop.error.name]>>
                   ELSE <<[error |-> "invalid_function_call",
                           rank |-> loop.error.rank]>>]
  ELSE [raised |-> loop.error, node |-> node, result |-> {}, errors |-> <<>>]

\* No call_function call yet.
NoCallFunction ==
  [steps |-> 0, funcu |-> <<>>, fallback_to_unsolvable |-> FALSE,
   log_from |-> 0,
   out |-> [raised |-> NoError, node |-> 0, result |-> {}, errors |-> <<>>]]

\* What the call of one function can do: return at the node of the call or
\* at a new node, with a Variable that holds nothing, an int or a str, or
\* raise DictKeyMissing or a FailedFunctionCall of one of two ranks.
Candidates ==
  {CallReturns(name, n, d) : name \in {"f", "__init__"},
                         n \in {CallNode, CallNode + 1},
                         d \in {{}, {"int"}, {"str"}}}
    \cup {CallRaises(name, FunctionError(k, r)) :
            name \in {"f", "__init__"},
            k \in {"FailedFunctionCall"}, r \in {2, 3}}
    \cup {CallRaises("f", FunctionError("DictKeyMissing", 1))}

\* The vm calls a Variable of functions.
CallFunction ==
  /\ callfn.steps < MaxCallFunction
  /\ \E n \in 1..MaxCandidates : \E funcu \in [1..n -> Candidates] :
     \E fallback_to_unsolvable \in BOOLEAN :
       LET out == vm_call_function(CallNode, funcu, fallback_to_unsolvable,
                                   CallNode + 1) IN
       /\ callfn' = [steps |-> callfn.steps + 1, funcu |-> funcu,
                     fallback_to_unsolvable |-> fallback_to_unsolvable,
                     log_from |-> Len(errorlog), out |-> out]
       /\ errorlog' = errorlog \o out.errors
  /\ UNCHANGED <<vm_vars, convert_vars, upto_class_vars, call_others>>

(***************************************************************************)
(* Part 13: the conditional jumps (vm.py, _jump_if and the opcodes that     *)
(* call it)                                                                *)
(***************************************************************************)

\* The conditional jumps run and the depth of the data stacks they meet.
MaxJumpOps == 1
MaxJumpDepth == 2

\* The opcodes that call _jump_if.
ConditionalJumps ==
  {"JUMP_IF_TRUE_OR_POP", "JUMP_IF_FALSE_OR_POP", "JUMP_IF_TRUE",
   "JUMP_IF_FALSE", "POP_JUMP_IF_TRUE", "POP_JUMP_IF_FALSE"}

\* The handler of a conditional jump.
DispatchJump(f, state, op, nn) ==
  CASE op.name = "JUMP_IF_TRUE_OR_POP" ->
         byte_JUMP_IF_TRUE_OR_POP(f, state, op, nn)
    [] op.name = "JUMP_IF_FALSE_OR_POP" ->
         byte_JUMP_IF_FALSE_OR_POP(f, state, op, nn)
    [] op.name = "JUMP_IF_TRUE" -> byte_JUMP_IF_TRUE(f, state, op, nn)
    [] op.name = "JUMP_IF_FALSE" -> byte_JUMP_IF_FALSE(f, state, op, nn)
    [] op.name = "POP_JUMP_IF_TRUE" ->
         byte_POP_JUMP_IF_TRUE(f, state, op, nn)
    [] op.name = "POP_JUMP_IF_FALSE" ->
         byte_POP_JUMP_IF_FALSE(f, state, op, nn)

\* No conditional jump has run.
NoJumpIf ==
  [steps |-> 0, op |-> Op("", 0), state |-> NoState, prior |-> NoState,
   out |-> Outcome("", NoState, <<NoState>>, {}, 0)]

\* The Variables on the data stack: any bindings of an int, None and the
\* unsolvable value, none at all included.
JumpVariables == SUBSET {"int", "None", "unsolvable"}

JumpStacks == UNION {[1..n -> JumpVariables] : n \in 0..MaxJumpDepth}

\* The states an earlier jump may have recorded at the target.
PriorStates ==
  {NoState}
    \cup {FrameState(root_cfg_node, [i \in 1..n |-> {"int"}], <<>>, "") :
            n \in 0..MaxJumpDepth}

\* The frame of a code whose only jump target has the recorded state prior.
JumpFrame(prior) == [states |-> <<prior>>, return_variable |-> {}]

\* run_instruction reaches a conditional jump to the target.
JumpIf ==
  /\ jumping.steps < MaxJumpOps
  /\ \E name \in ConditionalJumps : \E stack \in JumpStacks :
     \E prior \in PriorStates :
       LET state == FrameState(CallNode, stack, <<>>, "")
           op == Op(name, 1)
       IN jumping' = [steps |-> jumping.steps + 1, op |-> op,
                      state |-> state, prior |-> prior,
                      out |-> DispatchJump(JumpFrame(prior), state, op,
                                           CallNode)]
  /\ UNCHANGED <<vm_vars, convert_vars, errorlog, upto_call_vars, jump_others>>

(***************************************************************************)
(* Part 14: YIELD_VALUE and RETURN_VALUE on the frame's yield and return    *)
(* Variables (vm.py, byte_YIELD_VALUE and byte_RETURN_VALUE)               *)
(***************************************************************************)

\* The opcodes run on one frame.
MaxYieldOps == 2

\* Variable.PasteVariable(variable, where): a binding for each binding of the
\* pasted Variable.
PasteVariable(self, variable) == self \cup variable

\* frame.allowed_returns is None: the function has no return annotation.
NoAnnotation == ""

\* The part of state.Frame the two opcodes use: the two Variables, whether
\* returns are checked, the annotated return type and the generator flag of
\* the code.
GeneratorFrame(check_return, allowed_returns, co_generator) ==
  [return_variable |-> {}, yield_variable |-> {},
   check_return |-> check_return, allowed_returns |-> allowed_returns,
   co_generator |-> co_generator]

\* vm.init_class(node, cls)[2]: a Variable of an instance of the class.
init_class(cls) == {cls}

\* What one of the two handlers did: the exception it raised, the state it
\* returned, the frame as it left it and the _check_return calls it made
\* (the actual Variable and the expected type of each).
YieldOutcome(exn, state, f, checks) ==
  [exn |-> exn, state |-> state, frame |-> f, checks |-> checks]

\* A YIELD_VALUE that pastes the value into the return Variable.
byte_YIELD_VALUE_as_return(f, state) ==
  IF state.data_stack = <<>>
  THEN YieldOutcome("IndexError", state, f, <<>>)
  ELSE YieldOutcome("", set_why(pop_and_discard(state), "yield"),
                    [f EXCEPT !.return_variable =
                                PasteVariable(@, top(state))],
                    <<>>)

\* byte_YIELD_VALUE(state, op) on the frame f.
byte_YIELD_VALUE(f, state) ==
  IF state.data_stack = <<>>
  THEN YieldOutcome("IndexError", state, f, <<>>)
  ELSE LET ret == top(state)
           g == [f EXCEPT !.yield_variable = PasteVariable(@, ret)]
       IN YieldOutcome("", set_why(pop_and_discard(state), "yield"), g,
                       IF f.check_return
                       THEN << <<"Generator", g.yield_variable,
                                 f.allowed_returns>> >>
                       ELSE <<>>)

\* byte_RETURN_VALUE(state, op) on the frame f, with the checks against the
\* annotation and the instance of the annotated type in place of the value.
byte_RETURN_VALUE_annotated(f, state) ==
  IF state.data_stack = <<>>
  THEN YieldOutcome("IndexError", state, f, <<>>)
  ELSE LET var == top(state)
           retvar == IF f.allowed_returns # NoAnnotation
                     THEN init_class(f.allowed_returns) ELSE var
       IN YieldOutcome("", set_why(pop_and_discard(state), "return"),
                       [f EXCEPT !.return_variable = PasteVariable(@, retvar)],
                       IF ~f.check_return THEN <<>>
                       ELSE IF f.co_generator
                       THEN << <<"value", var, "NoneType">> >>
                       ELSE << <<"value", var, f.allowed_returns>> >>)

\* No opcode has run and no frame was made.
NoYield ==
  [steps |-> 0, op |-> "", state |-> NoState,
   before |-> GeneratorFrame(FALSE, NoAnnotation, FALSE),
   out |-> YieldOutcome("", NoState, GeneratorFrame(FALSE, NoAnnotation, FALSE),
                        <<>>)]

\* The frames of the functions analysed.
GeneratorFrames ==
  {GeneratorFrame(c, a, g) :
     c \in BOOLEAN, a \in {NoAnnotation, "int"}, g \in BOOLEAN}

\* The Variables the opcodes find on the data stack.
YieldedVariables == (SUBSET {"int", "None", "str"}) \ {{}}

YieldStacks == {<<>>} \cup {<<v>> : v \in YieldedVariables}

\* run_instruction reaches a YIELD_VALUE or a RETURN_VALUE in the frame: the
\* first opcode runs in a new frame, a later one in the frame as the one
\* before left it.
YieldOrReturn ==
  /\ yielding.steps < MaxYieldOps
  /\ \E name \in {"YIELD_VALUE", "RETURN_VALUE"} : \E stack \in YieldStacks :
     \E new \in GeneratorFrames :
       LET f == IF yielding.steps = 0 THEN new ELSE yielding.out.frame
           state == FrameState(CallNode, stack, <<>>, "")
       IN /\ yielding.steps > 0 => new = GeneratorFrame(FALSE, NoAnnotation, FALSE)
          /\ yielding' = [steps |-> yielding.steps + 1, op |-> name,
                          state |-> state, before |-> f,
                          out |-> IF name = "YIELD_VALUE"
                                  THEN byte_YIELD_VALUE(f, state)
                                  ELSE byte_RETURN_VALUE_annotated(f, state)]
  /\ UNCHANGED <<vm_vars, convert_vars, errorlog, upto_call_vars,
                 yield_others>>

(***************************************************************************)
(* Part 15: the creation of Unknown values (convert.py,                     *)
(* _create_new_unknown_value and create_new_unknown)                       *)
(***************************************************************************)

\* The requests for an Unknown made of one converter.
MaxUnknowns == 3

\* abstract.Unknown(vm): the instance created as the id-th of the run.
UnknownInstance(id) == Value("Unknown", "", "", id)

\* No action is given (action=None).
NoAction == ""

\* No frame is running (vm.frame is None).
NoFrame == 0

\* The key of the Unknown of an opcode and an action in the converter cache.
UnknownKey(current_opcode, action) ==
  [kind |-> "unknown", opcode |-> current_opcode, action |-> action]

\* A converter that caches no Unknown.
UsesCacheNever(cache_unknowns, action, vmframe) == FALSE

\* Whether _create_new_unknown_value goes through the cache: the vm caches
\* unknowns, an action is given and a frame is running.
UsesCache(cache_unknowns, action, vmframe) ==
  cache_unknowns /\ action # NoAction /\ vmframe # NoFrame

\* Converter._create_new_unknown_value(action), the vm running the frame
\* vmframe at current_opcode: the Unknown, the Unknowns of the cache and the
\* number of instances created afterwards.
create_new_unknown_value(u, action, vmframe, current_opcode) ==
  LET key == UnknownKey(current_opcode, action)
      new == UnknownInstance(u.made + 1)
  IN
  IF ~UsesCache(u.cache_unknowns, action, vmframe)
  THEN [value |-> new, cache |-> u.cache, made |-> u.made + 1]
  ELSE IF key \notin DOMAIN u.cache
  THEN [value |-> new,
        cache |-> [k \in DOMAIN u.cache \cup {key} |->
                     IF k = key THEN new ELSE u.cache[k]],
        made |-> u.made + 1]
  ELSE [value |-> u.cache[key], cache |-> u.cache, made |-> u.made]

\* Converter.create_new_unknown(node, source, action, force): the binding of
\* the Variable returned.
create_new_unknown_action(u, action, force, vmframe, current_opcode) ==
  IF ~force /\ ~u.generate_unknowns
  THEN [value |-> unsolvable, cache |-> u.cache, made |-> u.made]
  ELSE create_new_unknown_value(u, action, vmframe, current_opcode)

\* The converter of a vm that is not constructed yet.
NoUnknowns ==
  [constructed |-> FALSE, cache_unknowns |-> TRUE, generate_unknowns |-> FALSE,
   cache |-> <<>>, made |-> 0, log |-> <<>>]

\* VirtualMachine.__init__ with its options generate_unknowns and
\* cache_unknowns.
InitVirtualMachine ==
  /\ ~unknowns.constructed
  /\ \E generate_unknowns \in BOOLEAN : \E cache_unknowns \in BOOLEAN :
       unknowns' = [unknowns EXCEPT !.constructed = TRUE,
                                    !.generate_unknowns = generate_unknowns,
                                    !.cache_unknowns = cache_unknowns]
  /\ UNCHANGED <<vm_vars, convert_vars, errorlog, upto_call_vars,
                 unknown_others>>

\* The call stacks of the requests, as the codes of their frames.
UnknownStacks == {<<>>, <<1>>, <<2, 1>>}

\* What frame.current_opcode is when a request is made while a frame runs:
\* one of two opcodes, or 0 for None between two instructions.
UnknownOpcodes == {0, 1, 2}

UnknownActions == {NoAction, "getattr"}

\* The converter is asked for a new Unknown, by create_new_unknown or, for
\* the instance of `type`, by _create_new_unknown_value directly.
CreateNewUnknown ==
  /\ unknowns.constructed
  /\ Len(unknowns.log) < MaxUnknowns
  /\ \E stack \in UnknownStacks : \E action \in UnknownActions :
     \E force \in BOOLEAN : \E direct \in BOOLEAN :
     \E op \in (IF stack = <<>> THEN {0} ELSE UnknownOpcodes) :
       LET vmframe == IF stack = <<>> THEN NoFrame ELSE stack[Len(stack)]
           out == IF direct
                  THEN create_new_unknown_value(unknowns, action, vmframe, op)
                  ELSE create_new_unknown_action(unknowns, action, force,
                                                 vmframe, op)
       IN /\ direct => force
          /\ unknowns' =
               [unknowns EXCEPT
                  !.cache = out.cache,
                  !.made = out.made,
                  !.log = Append(@, [stack |-> stack, opcode |-> op,
                                     action |-> action, force |-> force,
                                     direct |-> direct,
                                     value |-> out.value])]
  /\ UNCHANGED <<vm_vars, convert_vars, errorlog, upto_call_vars,
                 unknown_others>>

(***************************************************************************)
(* The specifications                                                      *)
(***************************************************************************)

\* The virtual machine after its construction: no frame, the root CFG node.
InitVM ==
  /\ frames = <<>>
  /\ frame = 0
  /\ run_frame_calls = <<>>
  /\ nnodes = 1
  /\ raised = ""
  /\ errorlog = <<>>
  /\ returned = [code |-> 0, node |-> 0, return_variable |-> {},
                 return_nodes |-> <<>>, depth |-> 0]
  /\ last = [op |-> Op("", 0), exn |-> "", why |-> "", escaped |-> FALSE,
             before |-> NoState, stack |-> <<>>]

\* The converter after Converter.__init__: the classes and the instances of
\* the primitive classes are in the cache.
InitConverter ==
  /\ convert_cache =
       [k \in {ConstantKey(Py("Class", "NoneType", 0)),
               ConstantKey(Py("Class", "list", 0)),
               ConstantKey(Py("Class", "tuple", 0)),
               ConstantKey(Py("Class", "Callable", 0)),
               InstanceKey("NoneType")} |->
          IF k = InstanceKey("NoneType") THEN none
          ELSE IF k.pyval.name = "list" THEN list_type
          ELSE IF k.pyval.name = "tuple" THEN tuple_type
          ELSE IF k.pyval.name = "Callable" THEN function_type
          ELSE none_type]
  /\ calls = <<>>
  /\ request = [via |-> "", pyval |-> Py("", "", 0), subst |-> {}, node |-> 0]
  /\ history = <<>>
  /\ nvalues = 12
  /\ nobjs = 1

\* The parts that follow the frame machine and the converter, at rest.
NoMembers ==
  [c \in OperandClasses |->
     [m \in {"__add__", "__radd__", "__contains__"} |-> "absent"]]

\* The parts that follow the construction of classes have not been called.
InitAfterClass ==
  /\ fncomment = NoFunctionComment
  /\ lateq = NoProgram
  /\ callfn = NoCallFunction
  /\ jumping = NoJumpIf
  /\ yielding = NoYield
  /\ unknowns = NoUnknowns

InitLater ==
  /\ members = NoMembers
  /\ binop = NoBinop
  /\ attrload = NoAttrLoad
  /\ getiter = NoGetIter
  /\ unpack = NoUnpack
  /\ blockrun = NoBlockRun(2)
  /\ raising = NoRaising(2, NoException)
  /\ mkclass = NoMakeClass
  /\ InitAfterClass

\* The declarations of a program without classes of its own.
NoClasses == [c \in ClassNames |-> <<>>]

\* The declared bases of the classes A and B of the analysed program.
ClassDeclarations ==
  {[NoClasses EXCEPT !["A"] = a, !["B"] = b] :
     a \in {<<>>, <<"A">>, <<"B">>}, b \in {<<>>, <<"A">>}}

\* The analysis of a program: the code objects to analyse.  Code 2 is a
\* function of the module (code 1) and exists only if the module calls it.
Init ==
  /\ \E p \in ModulePrograms :
       \E q \in IF Calls(p, 2) THEN FunctionPrograms ELSE {<<>>} :
         codes = <<p, q>>
  /\ InitVM
  /\ parents = NoClasses
  /\ InitConverter
  /\ InitLater

Next ==
  \/ RunBytecode
  \/ SkipBlock
  \/ RunInstruction
  \/ EnterFrame
  \/ FinishFrame

Spec == Init /\ [][Next]_vars

\* The conversions of the declarations of a program, before any of its code
\* is run.
ConvertInit ==
  /\ codes = << <<>>, <<>> >>
  /\ InitVM
  /\ parents \in ClassDeclarations
  /\ InitConverter
  /\ InitLater

ConvertNext ==
  \/ CallConstantToValue
  \/ CallConstantToVar
  \/ ConstantToVarOfTypeParameter
  \/ CacheHit
  \/ RecursionError
  \/ StartConversion
  \/ NestedConversion
  \/ RaiseTypeParameterError
  \/ ReturnValue

ConvertSpec == ConvertInit /\ [][ConvertNext]_vars

\* Every call that can take a step eventually takes it.
FairConvertSpec == ConvertSpec /\ WF_vars(ConvertNext)

\* The conversions of the integer, bool and long constants of a program.
LiteralInit ==
  /\ codes = << <<>>, <<>> >>
  /\ InitVM
  /\ parents = NoClasses
  /\ InitConverter
  /\ InitLater

LiteralNext ==
  \/ CallConvertLiteral
  \/ BuildBool
  \/ CacheHit
  \/ StartConversion
  \/ ReturnValue

LiteralSpec == LiteralInit /\ [][LiteralNext]_vars

\* The declared bases of the classes A, B and C of a program in which C
\* derives from A and from B: B derives from A, or does not.
TypeDeclarations ==
  {[NoClasses EXCEPT !["B"] = b, !["C"] = <<"A", "B">>] :
     b \in {<<>>, <<"A">>}}

\* The conversions of the declared types of such a program.
TypeInit ==
  /\ codes = << <<>>, <<>> >>
  /\ InitVM
  /\ parents \in TypeDeclarations
  /\ InitConverter
  /\ InitLater

TypeNext ==
  \/ CallConvertDeclaredType
  \/ ReadTypeParameter
  \/ CacheHit
  \/ StartConversion
  \/ NestedConversion
  \/ ReturnValue

TypeSpec == TypeInit /\ [][TypeNext]_vars

\* The classes a program with such declarations builds, and the conversions of
\* its declared classes.
ClassInit ==
  /\ codes = << <<>>, <<>> >>
  /\ InitVM
  /\ parents \in TypeDeclarations
  /\ InitConverter
  /\ InitLater

CallConvertDeclaredClass ==
  /\ Idle
  /\ \E name \in {"A", "B", "C"} :
       /\ request' = [via |-> "constant_to_value",
                      pyval |-> Py("Class", name, 0), subst |-> {},
                      node |-> root_cfg_node]
       /\ calls' = <<Activation(Py("Class", name, 0), {}, root_cfg_node)>>
  /\ UNCHANGED <<later_vars, vm_vars, errorlog, parents, convert_cache, nvalues,
                 nobjs, history>>

ClassNext ==
  \/ CallConvertDeclaredClass
  \/ CacheHit
  \/ StartConversion
  \/ NestedConversion
  \/ ReturnValue
  \/ MakeClass

ClassSpec == ClassInit /\ [][ClassNext]_vars

\* The evaluation of one binary operator of a program with the classes A, B
\* and D, before any other code is run.
OperatorInit ==
  /\ codes = << <<>>, <<>> >>
  /\ InitVM
  /\ parents = NoClasses
  /\ InitConverter
  /\ members \in MemberDeclarations
  /\ binop = NoBinop
  /\ attrload = NoAttrLoad
  /\ getiter = NoGetIter
  /\ unpack = NoUnpack
  /\ blockrun = NoBlockRun(2)
  /\ raising = NoRaising(2, NoException)
  /\ mkclass = NoMakeClass
  /\ InitAfterClass

OperatorNext ==
  \/ CallBinaryOperator
  \/ CallBinopOnBindings
  \/ JoinBinaryOperator

OperatorSpec == OperatorInit /\ [][OperatorNext]_vars

\* The lookup of one attribute, before any other code is run.
AttributeInit ==
  /\ codes = << <<>>, <<>> >>
  /\ InitVM
  /\ parents = NoClasses
  /\ InitConverter
  /\ InitLater

AttributeNext ==
  \/ CallLoadAttr
  \/ RetrieveAttr
  \/ LoadAttr

AttributeSpec == AttributeInit /\ [][AttributeNext]_vars

\* One request for an iterator, before any other code is run.
IterationInit == AttributeInit

IterationNext ==
  \/ CallGetIter
  \/ TryIter
  \/ TryGetItem

IterationSpec == IterationInit /\ [][IterationNext]_vars

\* One unpacking opcode, before any other code is run.
UnpackInit == AttributeInit

UnpackNext ==
  \/ UnpackSequence
  \/ IterateNonTuple
  \/ PushValues

UnpackSpec == UnpackInit /\ [][UnpackNext]_vars

\* The block opcodes of a code object, run from the initial frame state by a
\* virtual machine for Python 2 or for Python 3.
BlockInit ==
  /\ codes = << <<>>, <<>> >>
  /\ InitVM
  /\ parents = NoClasses
  /\ InitConverter
  /\ members = NoMembers
  /\ binop = NoBinop
  /\ attrload = NoAttrLoad
  /\ getiter = NoGetIter
  /\ unpack = NoUnpack
  /\ blockrun \in {NoBlockRun(2), NoBlockRun(3)}
  /\ raising = NoRaising(2, NoException)
  /\ mkclass = NoMakeClass
  /\ InitAfterClass

BlockNext ==
  \/ PushValue
  \/ PopValue
  \/ SetupLoop
  \/ SetupExcept
  \/ SetupFinally
  \/ SetupWith
  \/ PopBlock
  \/ BreakLoop
  \/ ContinueLoop

BlockSpec == BlockInit /\ [][BlockNext]_vars

\* The opcodes that raise, run from the initial frame state by a virtual
\* machine for Python 2 or for Python 3; whether an exception is being handled
\* (state.last_exception) is not decided by the code modelled here.
RaiseInit ==
  /\ codes = << <<>>, <<>> >>
  /\ InitVM
  /\ parents = NoClasses
  /\ InitConverter
  /\ members = NoMembers
  /\ binop = NoBinop
  /\ attrload = NoAttrLoad
  /\ getiter = NoGetIter
  /\ unpack = NoUnpack
  /\ blockrun = NoBlockRun(2)
  /\ raising \in {NoRaising(v, e) : v \in {2, 3}, e \in {NoException, "no_tb"}}
  /\ mkclass = NoMakeClass
  /\ InitAfterClass

RaiseNext ==
  \/ PushRaised
  \/ RaiseVarargs
  \/ EndFinally

RaiseSpec == RaiseInit /\ [][RaiseNext]_vars

\* The function type comments of a module, before any other code is run.
CommentInit == AttributeInit

CommentNext == ProcessFunctionTypeComment

CommentSpec == CommentInit /\ [][CommentNext]_vars

\* One run_program call on a module that creates functions.
ProgramInit == AttributeInit

ProgramNext ==
  \/ RunProgram
  \/ NewProgramNode
  \/ MakeFunction
  \/ FinishBytecode
  \/ EvalLateAnnotations
  \/ FinishProgram

ProgramSpec == ProgramInit /\ [][ProgramNext]_vars

\* One call of a Variable of functions, before any other code is run.
CallFunctionInit == AttributeInit

CallFunctionNext == CallFunction

CallFunctionSpec == CallFunctionInit /\ [][CallFunctionNext]_vars

\* One conditional jump, before any other code is run.
JumpInit == AttributeInit

JumpNext == JumpIf

JumpSpec == JumpInit /\ [][JumpNext]_vars

\* Two opcodes of one frame, before any other code is run.
YieldInit == AttributeInit

YieldNext == YieldOrReturn

YieldSpec == YieldInit /\ [][YieldNext]_vars

\* The requests for Unknowns of one vm, before any code is run.
UnknownInit == AttributeInit

UnknownNext ==
  \/ InitVirtualMachine
  \/ CreateNewUnknown

UnknownSpec == UnknownInit /\ [][UnknownNext]_vars

(***************************************************************************)
(* Claims about the frame / stack machine                                  *)
(***************************************************************************)

\* C1: after run_frame returns, the frame's return Variable has at least one
\* binding, and exactly the one unsolvable binding when no return point was
\* collected.
C1_ReturnVariableNeverEmpty ==
  returned.code # 0 =>
    /\ returned.return_variable # {}
    /\ returned.return_nodes = <<>> =>
         returned.return_variable = {"unsolvable"}

\* C6 as stated: every exception a handler raises inside run_instruction,
\* the one for an unknown opcode included, becomes a state with reason
\* 'exception' (the recursion condition apart); none escapes run_instruction.
C6_NoExceptionEscapes ==
  last.op.name # "" =>
    /\ ~last.escaped
    /\ last.exn \notin {"", "RecursionException"} => last.why = "exception"

\* C6 as amended: run_instruction catches ByteCodeException (reason
\* 'exception') and the recursion condition (reason 'recursion'); any other
\* exception of a handler, the VirtualMachineError of an unknown opcode
\* included, escapes run_instruction and ends the analysis.
C6_OnlyByteCodeExceptionCaught ==
  last.op.name # "" =>
    /\ last.exn = "ByteCodeException" =>
         ~last.escaped /\ last.why = "exception"
    /\ last.exn = "RecursionException" =>
         ~last.escaped /\ last.why = "recursion"
    /\ last.exn \notin {"", "ByteCodeException", "RecursionException"} =>
         last.escaped /\ raised = last.exn
    /\ last.op.name = "NOP" => last.exn = "VirtualMachineError"

C6_Witness ==
  /\ last.op = Op("RAISE_VARARGS", 0)
  /\ last.exn = "ByteCodeException"
  /\ last.why = "exception"
  /\ raised = ""

\* The call stack as the sequence of the frames' code objects.
StackCodes(fs) == [i \in 1..Len(fs) |-> fs[i].code]

\* The VM is about to run a call of a code object that a frame on the call
\* stack is running.
AtRecursiveCall ==
  /\ Running
  /\ Top.blk <= NumBlocks(Top)
  /\ Top.ip > 1 \/ Top.states[Top.blk].some
  /\ CurOp(Top).name = "CALL_FUNCTION"
  /\ \E i \in 1..Len(frames) : frames[i].code = CurOp(Top).arg

\* C7: a call of a code object already on the call stack pushes no frame; the
\* state gets a reason, the block ends there and its node is collected as a
\* return point, the call stack is unchanged, nothing is reported and no
\* exception escapes.
C7_RecursionEndsBlock ==
  [][AtRecursiveCall =>
       /\ StackCodes(frames') = StackCodes(frames)
       /\ raised' = ""
       /\ errorlog' = errorlog
       /\ last'.why # "" /\ ~last'.escaped
       /\ frames'[Len(frames)].blk = Top.blk + 1
       /\ frames'[Len(frames)].return_nodes =
            Append(Top.return_nodes, CurState(Top).node)
       /\ frames'[Len(frames)].states = Top.states
       /\ nnodes' = nnodes]_vars

\* A recursive call was refused on account of a frame below the top one.
C7_Witness ==
  /\ last.exn = "RecursionException"
  /\ Len(last.stack) = 2
  /\ last.op.arg = last.stack[1]
  /\ last.op.arg # last.stack[2]
  /\ Len(frames) = 2
  /\ Top.return_nodes # <<>>

\* C8: a block is interpreted only if a state was recorded for its first
\* instruction; a block without one is skipped (no error, no instruction run,
\* nothing else changed) and run_frame moves on to the next block.
C8_BlockWithoutStateSkipped ==
  [][/\ (Running /\ Top.blk <= NumBlocks(Top) /\ Top.ip = 1
           /\ ~Top.states[Top.blk].some) =>
          /\ raised' = "" /\ last' = last /\ nnodes' = nnodes
          /\ returned' = returned
          /\ frames' = [frames EXCEPT ![Len(frames)] =
                          [Top EXCEPT !.blk = @ + 1,
                                      !.skipped = @ \cup {Top.blk}]]
     /\ (Running /\ last' # last /\ Len(frames') >= Len(frames)) =>
          Top.states[Top.blk].some
     /\ \A i \in 1..Len(frames') :
          \A b \in frames'[i].ran :
            frames'[i].states[b].some /\ b \notin frames'[i].skipped]_vars

\* A block was skipped and a later block of the same frame was interpreted.
C8_Witness ==
  \E i \in 1..Len(frames) :
    \E b \in frames[i].skipped : \E c \in frames[i].ran : b < c

RegisterBoth(t, a, b) ==
  LET nothing == [x \in {t} |-> NoState] IN
  store_jump(store_jump(nothing, t, a), t, b)[t].data_stack

ReentersOwnKey ==
  /\ calls # <<>>
  /\ Inner.pc = "lookup"
  /\ \E i \in 1..(Len(calls) - 1) :
       /\ calls[i].pc = "body"
       /\ ConstantKey(calls[i].pyval) = ConstantKey(Inner.pyval)

\* C2: a constant_to_value call that re-enters a key under conversion finds
\* the sentinel there, reports exactly one recursion diagnostic and returns
\* the unsolvable value to its caller without converting anything; and every
\* conversion terminates.
C2_ReentryYieldsUnsolvable ==
  /\ [][ReentersOwnKey =>
          /\ convert_cache[ConstantKey(Inner.pyval)] = InProgress
          /\ errorlog' = Append(errorlog, [error |-> "recursion_error",
                                           name |-> RecursionErrorName(Inner.pyval)])
          /\ Len(calls') = Len(calls) - 1
          /\ calls'[Len(calls')].results =
               Append(calls[Len(calls) - 1].results, unsolvable)
          /\ nvalues' = nvalues]_vars
  /\ (calls # <<>>) ~> (calls = <<>>)

\* The conversion of class A came back to class A through class B and was
\* answered with the unsolvable value.
C2_Witness ==
  /\ Len(calls) = 4
  /\ calls[1].pyval = Py("Class", "A", 0)
  /\ calls[3].pyval = Py("Class", "B", 0)
  /\ calls[4].results = <<unsolvable>>
  /\ errorlog = <<[error |-> "recursion_error", name |-> "A"]>>

\* C3: a value that constant_to_value constructed at a node other than the
\* root, consulting the node, is at no key of the cache, and no later
\* conversion at a different node returns it.
C3_NodeDependentValueNotCached ==
  \A i \in 1..Len(history) :
    LET h == history[i] IN
    (h.status = "returned" /\ h.used_node /\ h.node # root_cfg_node) =>
      /\ \A k \in DOMAIN convert_cache : convert_cache[k] # h.value
      /\ \A j \in (i + 1)..Len(history) :
           history[j].node # h.node => history[j].value # h.value

\* The same tuple declaration was converted at two nodes other than the root.
C3_Witness ==
  /\ Len(history) = 2
  /\ history[1].pyval = Py("AsInstance", TupleOfNone, 1)
  /\ history[1].via = "constant_to_value"
  /\ history[1].used_node /\ history[1].node = 2
  /\ history[2].pyval = history[1].pyval
  /\ history[2].via = "constant_to_value"
  /\ history[2].node = 3
  /\ history[2].status = "returned"

IsNone(pyval) == pyval = Py("literal", "None", 0)

IsTrue(pyval) == pyval = Py("literal", "True", 0)

\* C4: a conversion of None by constant_to_value yields the converter's none
\* value and one by constant_to_var the Variable build_none gives, at any node
\* and at any time; none is the instance cached for the declared class
\* NoneType and what an instance of that class converts to; any two
\* conversions of True yield the same value.
C4_NoneAndTrueAreSingletons ==
  /\ convert_cache[InstanceKey("NoneType")] = none
  /\ primitive_class_instances("NoneType") = none
  /\ \A i \in 1..Len(history) :
       LET h == history[i] IN
       /\ IsNone(h.pyval) =>
            /\ h.status = "returned"
            /\ h.value = none
            /\ to_variable(h.value, h.node) = build_none(h.node)
       /\ h.pyval.kind = "AsInstance" /\ h.pyval.name = "NoneType" =>
            h.status = "returned" /\ h.value = none
       /\ \A j \in 1..Len(history) :
            IsTrue(h.pyval) /\ IsTrue(history[j].pyval) =>
              /\ h.status = "returned"
              /\ h.value = history[j].value

\* None was converted by constant_to_value and then by constant_to_var, at
\* two different nodes.
C4_Witness ==
  /\ Len(history) = 2
  /\ IsNone(history[1].pyval) /\ history[1].via = "constant_to_value"
  /\ IsNone(history[2].pyval) /\ history[2].via = "constant_to_var"
  /\ history[1].node # history[2].node
  /\ history[2].value = none

\* The conversion asked for an instance of T, of type[T] or of list[T] when T
\* has no substitution, through a path on which the code raises.
OfUnresolvedParameter(h) ==
  /\ h.pyval.kind = "AsInstance"
  /\ "T" \notin h.subst
  /\ \/ h.pyval.name \in {TypeOfT, ListOfT}
     \/ h.pyval.name = "T" /\ h.via = "constant_to_var"

\* C5: every conversion of an instance of a type parameter without a
\* substitution (or of type[T], or of a generic containing T) raises
\* TypeParameterError, a repeated one too, and none returns a value.
C5_UnresolvedParameterAlwaysRaises ==
  \A i \in 1..Len(history) :
    OfUnresolvedParameter(history[i]) =>
      /\ history[i].status = "raised"
      /\ history[i].value = TypeParameterError

\* The classes A and B are declared with each other as the base.
MutualBases == parents["A"] = <<"B">> /\ parents["B"] = <<"A">>

\* C22: when the declared classes A and B each list the other as a base, a
\* conversion of class A reports a recursion diagnostic and returns the
\* unsolvable value, and the unsolvable value is then what the cache holds for
\* class A and for class B.
C22_MutualBasesResolveToWildcard ==
  \A i \in 1..Len(history) :
    LET h == history[i] IN
    (MutualBases /\ h.pyval = Py("Class", "A", 0) /\ h.status = "returned") =>
      /\ \E k \in 1..Len(errorlog) : errorlog[k].error = "recursion_error"
      /\ h.value = unsolvable
      /\ convert_cache[ConstantKey(Py("Class", "A", 0))] = unsolvable
      /\ convert_cache[ConstantKey(Py("Class", "B", 0))] = unsolvable

\* The object a conversion returned: the value of constant_to_value, the
\* Variable of constant_to_var.
ResultObject(h) ==
  IF h.via = "constant_to_var" THEN [variable |-> h.var]
  ELSE [value |-> h.value]

\* Two conversions of the same declaration by the same function, both at the
\* root node, that both returned.
SameDeclarationTwice(i, j) ==
  /\ i < j
  /\ history[i].via = history[j].via
  /\ history[i].via \in {"constant_to_value", "constant_to_var"}
  /\ history[i].pyval = history[j].pyval
  /\ history[i].node = root_cfg_node /\ history[j].node = root_cfg_node
  /\ history[i].status = "returned" /\ history[j].status = "returned"

\* The constants 1 and True, equal and of different types, convert to
\* different values.
OneAndTrueApart ==
  \A i, j \in 1..Len(history) :
    (/\ history[i].pyval = Py("literal", "1", 0)
     /\ history[j].pyval = Py("literal", "True", 0)) =>
      history[i].value # history[j].value

\* C23 as stated: constant_to_value and constant_to_var alike return, for a
\* second conversion of the same declaration at the root node, the object the
\* first conversion returned, whatever the substitutions; 1 and True are kept
\* apart.
C23_BothMemoized ==
  /\ OneAndTrueApart
  /\ \A i, j \in 1..Len(history) :
       SameDeclarationTwice(i, j) =>
         ResultObject(history[i]) = ResultObject(history[j])

\* C23: a second conversion of the same declaration at the root node by
\* constant_to_value returns the value object the first one returned, whatever
\* the substitutions; constant_to_var returns a new Variable each time, which
\* holds the same value object when the constant is one it hands on to
\* constant_to_value as it is; 1 and True are kept apart.
C23_ConstantToValueMemoized ==
  /\ OneAndTrueApart
  /\ \A i, j \in 1..Len(history) :
       SameDeclarationTwice(i, j) =>
         /\ history[i].via = "constant_to_value" =>
              history[i].value = history[j].value
         /\ history[i].via = "constant_to_var" =>
              /\ history[i].var # history[j].var
              /\ history[i].pyval.kind # "AsInstance" =>
                   history[i].value = history[j].value

\* type[T] was converted twice at the root node by constant_to_value, with a
\* substitution for T and then without one, and the same class came back.
C23_Witness ==
  /\ Len(history) = 2
  /\ SameDeclarationTwice(1, 2)
  /\ history[1].via = "constant_to_value"
  /\ history[1].pyval = Py("AsInstance", TypeOfT, 1)
  /\ history[1].subst = {"T"} /\ history[2].subst = {}
  /\ history[1].value = history[2].value
  /\ history[1].value.tag = "PyTDClass"

\* A conversion of the literal of the given name that returned.
ConvertedLiteral(h, name) ==
  /\ h.via \in {"constant_to_value", "constant_to_var"}
  /\ h.pyval = Py("literal", name, 0)
  /\ h.status = "returned"

\* C24: build_bool(True) and build_bool(False) give the two values true and
\* false of class bool, build_bool(None) the shared abstract bool instance and
\* any other argument ValueError; every conversion of the literal True gives
\* the value true and every conversion of the literal False the value false.
C24_BoolSingletons ==
  /\ true.cls = "bool" /\ false.cls = "bool" /\ true # false
  /\ \A i \in 1..Len(history) :
       LET h == history[i] IN
       /\ h.via = "build_bool" =>
            h.value = CASE h.pyval.name = "True" -> true
                        [] h.pyval.name = "False" -> false
                        [] h.pyval.name = "None" ->
                             primitive_class_instances("bool")
                        [] OTHER -> ValueError
       /\ ConvertedLiteral(h, "True") => h.value = true
       /\ ConvertedLiteral(h, "False") => h.value = false

\* The integer an int constant of the model stands for.
IntOf(name) ==
  CASE name = "-2" -> -2
    [] name = "-1" -> -1
    [] name = "1" -> 1
    [] name = "12" -> 12
    [] name = "13" -> 13

\* C25: a conversion of an int constant i gives a concrete value of class int
\* that keeps i exactly when -1 <= i <= 12 (MAX_IMPORT_DEPTH); every other int
\* constant, and every long constant, converts to the one abstract instance
\* of int, primitive_class_instances[int].
C25_SmallIntsKeepTheirValue ==
  /\ MAX_IMPORT_DEPTH = 12
  /\ \A i \in 1..Len(history) :
       LET h == history[i] IN
       /\ (\E n \in IntLiterals : ConvertedLiteral(h, n)) =>
            IF -1 <= IntOf(h.pyval.name) /\ IntOf(h.pyval.name) <= 12
            THEN /\ h.value.tag = "AbstractOrConcreteValue"
                 /\ h.value.pyval = h.pyval.name
                 /\ h.value.cls = "int"
                 /\ h.value # primitive_class_instances("int")
            ELSE h.value = primitive_class_instances("int")
       /\ (\E n \in LongLiterals : ConvertedLiteral(h, n)) =>
            h.value = primitive_class_instances("int")

\* The ints -1 and 13 were converted: the first kept its value, the second
\* became the abstract instance of int.
C25_Witness ==
  /\ Len(history) = 2
  /\ ConvertedLiteral(history[1], "-1")
  /\ history[1].value.pyval = "-1"
  /\ ConvertedLiteral(history[2], "13")
  /\ history[2].value = primitive_class_instances("int")

\* The finished conversions of the declared generic g of the class C.
GenericConversions(g) ==
  {i \in 1..Len(history) :
     /\ history[i].status = "returned"
     /\ history[i].via # "type_parameters"
     /\ history[i].pyval = Py("GenericType", g, 0)}

\* The base class C converted to a class: that is what the cache holds for
\* the declaration of C.
BaseIsClass ==
  /\ ConstantKey(Py("Class", "C", 0)) \in DOMAIN convert_cache
  /\ convert_cache[ConstantKey(Py("Class", "C", 0))].tag = "PyTDClass"

\* Entry k of the type parameters tp answers a read with the conversion of
\* the declared class name: the entry is lazy and converts the class type
\* name, and every read that converted this class type returned the class
\* name.
MapsToConversionOf(tp, k, name) ==
  /\ tp[k].lazy
  /\ tp[k].pyval = Py("ClassType", name, 0)
  /\ \A r \in 1..Len(history) :
       (/\ history[r].via = "type_parameters"
        /\ history[r].status = "returned"
        /\ history[r].pyval = tp[k].pyval)
         => /\ history[r].value.tag = "PyTDClass"
            /\ history[r].value.pyval = name

\* C26: a declared generic with fewer parameters than the template of its
\* base class converts to a parameterized class with one type parameter for
\* each template name, in the order of the template: the i-th name answers
\* with the conversion of the i-th parameter and every name beyond the
\* parameters holds the unsolvable value; when the base class converted to
\* no class, the generic converts to the unsolvable value.
C26_ShortGenericFillsTemplate ==
  \A g \in {GenericOfA, GenericOfAB} : \A i \in GenericConversions(g) :
    LET v == history[i].value
        names == template(base_type(g))
    IN IF ~BaseIsClass THEN v = unsolvable
       ELSE /\ v.tag = "ParameterizedClass"
            /\ Len(v.type_parameters) = Len(names)
            /\ \A k \in 1..Len(names) :
                 /\ v.type_parameters[k].name = names[k]
                 /\ IF k <= Len(parameters(g))
                    THEN MapsToConversionOf(v.type_parameters, k,
                                            parameters(g)[k])
                    ELSE /\ ~v.type_parameters[k].lazy
                         /\ v.type_parameters[k].value = unsolvable

\* C[A] converted to a parameterized class over the template <<K, V>>, whose
\* entry V holds the unsolvable value, and its entry K was read and gave the
\* class A.
C26_Witness ==
  /\ Len(parameters(GenericOfA)) < Len(template("C"))
  /\ \E i \in GenericConversions(GenericOfA) :
       /\ history[i].value.tag = "ParameterizedClass"
       /\ \E r \in 1..Len(history) :
            /\ history[r].via = "type_parameters"
            /\ history[r].status = "returned"
            /\ history[r].pyval = Py("ClassType", "A", 0)
            /\ history[r].value.tag = "PyTDClass"

\* A generic of the class C converted to the unsolvable value because C,
\* whose bases A and B are declared in an order that B contradicts, has no
\* linearization.
C26_WitnessNoClass ==
  /\ ~BaseIsClass
  /\ parents["B"] = <<"A">>
  /\ \E g \in {GenericOfA, GenericOfAB} : GenericConversions(g) # {}

\* The finished conversions of the declared constant pyval.
ConversionsOf(pyval) ==
  {i \in 1..Len(history) :
     /\ history[i].status = "returned"
     /\ history[i].via # "type_parameters"
     /\ history[i].pyval = pyval}

\* The value v is the declared class name.
IsClassNamed(v, name) == v.tag = "PyTDClass" /\ v.pyval = name

\* The value v is the join of the declared classes names: nothing for none,
\* the class for one, the union of the classes in their order for more.
IsJoinOf(v, names) ==
  IF names = <<>> THEN v = convert_nothing
  ELSE IF Len(names) = 1 THEN IsClassNamed(v, names[1])
  ELSE /\ v.tag = "Union"
       /\ Len(v.options) = Len(names)
       /\ \A k \in 1..Len(names) : IsClassNamed(v.options[k], names[k])

\* Entry k of the type parameters tp answers a read with the join of the
\* declared classes names.
MapsToJoinOf(tp, k, names) ==
  /\ tp[k].lazy
  /\ \A r \in 1..Len(history) :
       (/\ history[r].via = "type_parameters"
        /\ history[r].status = "returned"
        /\ history[r].pyval = tp[k].pyval)
         => IsJoinOf(history[r].value, names)

\* The class of a declared tuple of n positions has n + 1 type parameters:
\* the indices 0..n-1 with the classes of the positions, then T with their
\* union.
TupleClassParameters(g) ==
  \A i \in ConversionsOf(Py("GenericType", g, 0)) :
    LET tp == history[i].value.type_parameters
        n == Len(parameters(g))
    IN /\ history[i].value.tag = "TupleClass"
       /\ Len(tp) = n + 1
       /\ \A k \in 1..n :
            /\ tp[k].name = ToString(k - 1)
            /\ MapsToConversionOf(tp, k, parameters(g)[k])
       /\ tp[n + 1].name = "T"
       /\ tp[n + 1].pyval.kind = "UnionType"
       /\ MapsToJoinOf(tp, n + 1, parameters(g))

\* The class of a declared callable of k argument types has k + 2 type
\* parameters: the indices 0..k-1 with the classes of the arguments, then
\* ARGS with their join, then RET with the class of the return type.
CallableParameters(g) ==
  \A i \in ConversionsOf(Py("GenericType", g, 0)) :
    LET tp == history[i].value.type_parameters
        k == Len(parameters(g))
    IN /\ history[i].value.tag = "Callable"
       /\ Len(tp) = k + 2
       /\ \A j \in 1..k :
            /\ tp[j].name = ToString(j - 1)
            /\ MapsToConversionOf(tp, j, parameters(g)[j])
       /\ tp[k + 1].name = "ARGS"
       /\ MapsToJoinOf(tp, k + 1, parameters(g))
       /\ tp[k + 2].name = "RET"
       /\ MapsToConversionOf(tp, k + 2, callable_ret(g))

\* The instance of a declared tuple holds one Variable for each position, in
\* the order of the positions: Variable k holds an instance of the class of
\* position k and nothing else.
TupleInstanceContent(g) ==
  \A i \in ConversionsOf(Py("AsInstance", g, 1)) :
    LET v == history[i].value IN
    /\ v.tag = "Tuple"
    /\ Len(v.content) = Len(parameters(g))
    /\ \A k \in 1..Len(parameters(g)) :
         /\ v.content[k].bindings # {}
         /\ \A b \in v.content[k].bindings :
              b.tag = "Instance" /\ b.cls = parameters(g)[k]

\* C27: the class of a declared tuple of n positions has n + 1 type
\* parameters (index i for position i, T for the union of all), the class of
\* a declared callable of k arguments has k + 2 (index i for argument i, ARGS
\* for the join of all, RET for the return type), and the instance of the
\* tuple holds one Variable for each position in the same order.
C27_TupleAndCallableParameters ==
  /\ \A g \in {TupleOfA, TupleOfAB} :
       TupleClassParameters(g) /\ TupleInstanceContent(g)
  /\ \A g \in CallableTypes : CallableParameters(g)

\* The instance of tuple[A, B] was converted.
C27_Witness ==
  \E i \in ConversionsOf(Py("AsInstance", TupleOfAB, 1)) :
    Len(history[i].value.content) = 2

\* The class of tuple[A, B] was converted and its entry T was read, which
\* gave a union.
C27_WitnessTupleClass ==
  /\ ConversionsOf(Py("GenericType", TupleOfAB, 0)) # {}
  /\ \E r \in 1..Len(history) :
       /\ history[r].via = "type_parameters"
       /\ history[r].status = "returned"
       /\ history[r].value.tag = "Union"

\* The class of the callable without arguments was converted and its entry
\* ARGS was read, which gave the empty type.
C27_WitnessCallable ==
  /\ ConversionsOf(Py("GenericType", CallableOfNothing, 0)) # {}
  /\ \E r \in 1..Len(history) :
       /\ history[r].via = "type_parameters"
       /\ history[r].status = "returned"
       /\ history[r].value = convert_nothing

\* C34: the None that marks a conversion in progress is at a key of the cache
\* only while a constant_to_value call for that key is on the call stack: once
\* the call has returned or raised, the key does not hold it.
C34_SentinelOnlyWhileConverting ==
  \A key \in DOMAIN convert_cache :
    IsInProgress(convert_cache, key) =>
      \E n \in 1..Len(calls) :
        ConstantKey(calls[n].pyval) = key /\ calls[n].pc = "body"

(***************************************************************************)
(* Claims about binary operator dispatch                                   *)
(***************************************************************************)

\* The class of yval derives from the class of xval, and a class that comes
\* before the class of xval in its mro declares the reflected method.
ReflectedFirst(xval, yval) ==
  LET order == Mro(ClassOf(yval)) IN
  \E k \in 1..Len(order) :
    /\ order[k] = ClassOf(xval)
    /\ \E i \in 1..(k - 1) : members[order[i]]["__radd__"] # "absent"

\* C11: for a reversible operator and a left operand that is no wildcard,
\* _call_binop_on_bindings tries the forward method of the left operand first
\* and the reflected method of the right operand second, and the other way
\* round when the right operand's class derives from the left operand's class
\* and overrides or newly defines the reflected method; the first candidate
\* whose call succeeds gives the result and no later candidate is looked up or
\* called.
C11_CandidateOrder ==
  \A n \in 1..Len(binop.pairs) :
    LET p == binop.pairs[n]
        forward == [left |-> p.xval, attr |-> binop.name]
        reflected == [left |-> p.yval, attr |-> "__radd__"]
        expected == IF ReflectedFirst(p.xval, p.yval)
                    THEN <<reflected, forward>>
                    ELSE <<forward, reflected>>
        looked == p.out.lookups
        called == p.out.called
    IN
    (binop.name \in reversable_operators /\ p.xval # "unsolvable") =>
      /\ Len(looked) \in {1, 2}
      /\ looked = SubSeq(expected, 1, Len(looked))
      /\ \A k \in 1..Len(called) :
           /\ called[k].ok => k = Len(called)
           /\ \E m \in 1..Len(looked) :
                /\ looked[m] = [left |-> called[k].left, attr |-> called[k].attr]
                /\ called[k].ok => m = Len(looked)
      /\ Len(looked) = 1 => called # <<>> /\ called[1].ok
      /\ p.out.some <=> called # <<>> /\ called[Len(called)].ok
      /\ p.out.some =>
           /\ p.out.exn = ""
           /\ \E b \in p.out.ret : b.data.attr = looked[Len(looked)].attr
           /\ Cardinality(p.out.ret) = 1

\* The right operand is an instance of D, whose base B declares the reflected
\* method: it was called first, succeeded, and the forward method of A, which
\* would have succeeded too, was not called.
C11_Witness ==
  \E n \in 1..Len(binop.pairs) :
    LET p == binop.pairs[n] IN
    /\ binop.name = "__add__"
    /\ p.xval = "a" /\ p.yval = "d"
    /\ members["D"]["__radd__"] = "absent"
    /\ members["B"]["__radd__"] = "ok"
    /\ members["A"]["__add__"] = "ok"
    /\ p.out.lookups = <<[left |-> "d", attr |-> "__radd__"]>>
    /\ p.out.ret = {Binding([cls |-> "B", attr |-> "__radd__"], {})}

\* C12: when the left operand's binding is a wildcard and the operator has a
\* reflected method, _call_binop_on_bindings returns one unsolvable binding
\* whose sources are the two operand bindings, looks up and calls no method,
\* and returns the node it was given.
C12_WildcardShortCircuit ==
  \A n \in 1..Len(binop.pairs) :
    LET p == binop.pairs[n] IN
    (binop.name \in reversable_operators /\ p.xval = "unsolvable") =>
      /\ p.out.exn = ""
      /\ p.out.some
      /\ p.out.ret = {Binding(unsolvable_result, {p.xval, p.yval})}
      /\ p.out.lookups = <<>>
      /\ p.out.called = <<>>
      /\ p.out.node = p.node

\* The left operand is a wildcard and the right operand's class declares the
\* reflected method.
C12_Witness ==
  \E n \in 1..Len(binop.pairs) :
    LET p == binop.pairs[n] IN
    /\ binop.name = "__add__"
    /\ p.xval = "unsolvable" /\ p.yval = "d"
    /\ members["D"]["__radd__"] = "ok"
    /\ p.out.some

\* A pair of operand bindings gave call_binary_operator a result.
SomePairHasResult ==
  \E n \in 1..Len(binop.pairs) :
    binop.pairs[n].out.exn = "" /\ binop.pairs[n].out.some

\* C13: call_binary_operator reports exactly one diagnostic when it was
\* called with report_errors and no pair of operand bindings gave a result,
\* however many pairs and candidates failed, and then binds the result to the
\* unsolvable value; otherwise it reports nothing.
C13_OneDiagnosticPerOperator ==
  LET fails == binop.phase = "done" /\ binop.report_errors
                 /\ ~SomePairHasResult
  IN /\ Len(errorlog) = IF fails THEN 1 ELSE 0
     /\ fails => binop.result = {Binding(unsolvable_result, {})}
     /\ (binop.phase = "done" /\ SomePairHasResult) => binop.result # {}

\* Four pairs of bindings failed, one of them with two failed calls, and one
\* diagnostic was reported.
C13_Witness ==
  /\ binop.phase = "done"
  /\ binop.report_errors
  /\ Len(binop.pairs) = 4
  /\ ~SomePairHasResult
  /\ \E n \in 1..4 : Len(binop.pairs[n].out.called) = 2
  /\ Len(errorlog) = 1

(***************************************************************************)
(* Claims about attribute lookup                                           *)
(***************************************************************************)

\* The elements of a sequence.
Range(seq) == {seq[i] : i \in 1..Len(seq)}

\* Every binding of the object is None or invisible at the node, and one of
\* them is a visible None.
BoundOnlyToNone(obj) ==
  /\ \A k \in 1..Len(obj) : obj[k].data = "None" \/ ~obj[k].visible
  /\ \E k \in 1..Len(obj) : obj[k].data = "None" /\ obj[k].visible

\* C14: _retrieve_attr resolves the attribute for each binding of the object
\* that is visible at the node: the result is the union of the results of the
\* bindings that resolve, the bindings that do not are returned as missing,
\* each visible binding is in exactly one of the two groups, and the result
\* is absent exactly when no binding resolved.  For the missing bindings
\* load_attr reports one none-attribute diagnostic when the object is bound
\* only to None, and otherwise one diagnostic for each missing binding that
\* is not None.
C14_AttributePerBinding ==
  attrload.phase = "done" =>
    LET obj == attrload.obj
        visible == {obj[k] : k \in {i \in 1..Len(obj) : obj[i].visible}}
        resolved == Range(attrload.resolved)
        missing == Range(attrload.values_without_attribute)
        reportable == {b \in missing : b.data # "None"}
    IN /\ resolved = {b \in visible : b.data \in attrload.has}
       /\ missing = {b \in visible : b.data \notin attrload.has}
       /\ resolved \cup missing = visible
       /\ resolved \cap missing = {}
       /\ Len(attrload.resolved) = Cardinality(resolved)
       /\ Len(attrload.values_without_attribute) = Cardinality(missing)
       /\ attrload.absent <=> resolved = {}
       /\ ~attrload.absent =>
            attrload.result =
              UNION {AttributeOf(b.data, attrload.attr) : b \in resolved}
       /\ IF missing # {} /\ BoundOnlyToNone(obj)
          THEN errorlog = <<[error |-> "none_attr", name |-> attrload.attr]>>
          ELSE /\ Len(errorlog) = Cardinality(reportable)
               /\ \A b \in reportable :
                    \E i \in 1..Len(errorlog) :
                      errorlog[i] = [error |-> "attribute_error",
                                     name |-> b.data]

\* An object with a visible None and a visible instance, neither of which has
\* the attribute, and with it one diagnostic, for the instance; the result is
\* absent.
C14_Witness ==
  /\ attrload.phase = "done"
  /\ attrload.obj = <<[data |-> "None", visible |-> TRUE],
                      [data |-> "a", visible |-> TRUE]>>
  /\ attrload.has = {"b"}
  /\ Len(attrload.values_without_attribute) = 2
  /\ attrload.absent
  /\ errorlog = <<[error |-> "attribute_error", name |-> "a"]>>

(***************************************************************************)
(* Claims about the iteration protocol                                     *)
(***************************************************************************)

\* A binding of the sequence that is visible at the node has the attribute.
Resolves(seq, has) ==
  \E k \in 1..Len(seq) : seq[k].visible /\ seq[k].data \in has

\* C15: _get_iter looks up __iter__ first and calls it when it resolves; only
\* when __iter__ is absent does it look up __getitem__, call it with an int
\* and wrap the item in an Iterator; when neither exists it reports the
\* failure, for each binding of the sequence, and gives a new unsolvable if
\* report_errors is true, and reports nothing and gives None if it is false.
C15_IterThenGetItem ==
  getiter.phase = "done" =>
    LET seq == getiter.seq
        with_iter == Resolves(seq, getiter.has_iter)
        with_getitem == Resolves(seq, getiter.has_getitem)
        visible == {k \in 1..Len(seq) : seq[k].visible}
    IN /\ with_iter =>
            /\ getiter.lookups = <<"__iter__">>
            /\ getiter.called = <<[attr |-> "__iter__", args |-> <<>>]>>
            /\ getiter.itr.kind = "result"
            /\ getiter.itr.item # {}
            /\ errorlog = <<>>
       /\ (~with_iter /\ with_getitem) =>
            /\ getiter.lookups = <<"__iter__", "__getitem__">>
            /\ getiter.called = <<[attr |-> "__getitem__", args |-> <<"int">>]>>
            /\ getiter.itr.kind = "Iterator"
            /\ getiter.itr.item # {}
            /\ errorlog = <<>>
       /\ (~with_iter /\ ~with_getitem) =>
            /\ getiter.lookups = <<"__iter__", "__getitem__">>
            /\ getiter.called = <<>>
            /\ IF getiter.report_errors
               THEN /\ getiter.itr = Itr("unsolvable", {})
                    /\ Len(errorlog) = Cardinality(visible)
                    /\ \A i \in 1..Len(errorlog) : errorlog[i].name = "__iter__"
               ELSE /\ getiter.itr = Itr("None", {})
                    /\ errorlog = <<>>

\* An object with __getitem__ and without __iter__, as the class Foo of
\* testIterationOfGetItem: __getitem__ was called and its item wrapped.
C15_Witness ==
  /\ getiter.phase = "done"
  /\ getiter.seq = <<[data |-> "a", visible |-> TRUE]>>
  /\ getiter.has_iter = {}
  /\ getiter.has_getitem = {"a"}
  /\ getiter.itr.kind = "Iterator"
  /\ getiter.called = <<[attr |-> "__getitem__", args |-> <<"int">>]>>

(***************************************************************************)
(* Claims about unpacking                                                  *)
(***************************************************************************)

\* The Variables _unpack_sequence has pushed, the one on top first.
Pushed ==
  LET n == Len(unpack.data_stack) - Len(unpack.below)
  IN [i \in 1..n |-> unpack.data_stack[Len(unpack.data_stack) + 1 - i]]

\* The data stack below the pushed Variables is the stack below the unpacked
\* Variable.
PopsOne ==
  /\ Len(unpack.data_stack) >= Len(unpack.below)
  /\ SubSeq(unpack.data_stack, 1, Len(unpack.below)) = unpack.below

\* Every position holds the union of what the options hold there, or the
\* empty Variable when they hold nothing.
PositionsUnioned ==
  \A i \in 1..Len(Pushed) :
    LET held == UNION {o[i] : o \in unpack.options}
    IN Pushed[i] = IF held = {} THEN empty_variable ELSE held

\* C16: _unpack_sequence with arity n (n_before, or n_before + n_after + 1
\* for the starred form) pops one Variable and pushes exactly n Variables,
\* position 0 on top, for every unpacked Variable, one without bindings
\* included; the positions hold the union of the alternatives and every
\* pushed Variable has a binding, the empty one when nothing else.
C16_PushesArityVariables ==
  unpack.phase = "done" =>
    /\ PopsOne
    /\ Len(Pushed) = unpack.count
    /\ PositionsUnioned
    /\ \A i \in 1..Len(Pushed) : Pushed[i] # {}

\* C17: for the bindings that are no literal of the right length,
\* _unpack_sequence obtains an iterator and calls its next method exactly
\* arity times, once for each position, and the starred position holds a list
\* of the result.
C17_NextCalledArityTimes ==
  (unpack.phase \in {"iterated", "done"} /\ unpack.nontuple_seq # {}) =>
    /\ unpack.get_iter_calls = 1
    /\ unpack.next_calls = unpack.count
    /\ unpack.n_after > -1 =>
         \E o \in unpack.options :
           o[unpack.n_before + 1] = build_list_of_type(NextResult(unpack.nontuple_seq))

(***************************************************************************)
(* Claims about the block stack                                            *)
(***************************************************************************)

\* The nearest enclosing loop block of the state before the last opcode.
LoopBefore ==
  blockrun.last.before.block_stack[NearestLoop(blockrun.last.before)]

\* The state recorded in frame.states at the target of the last opcode has
\* the block stack and the depth of the state the opcode sent there.
Registered ==
  LET recorded == blockrun.states[blockrun.last.target] IN
  /\ recorded.some
  /\ recorded.block_stack = blockrun.last.sent.block_stack
  /\ Len(recorded.data_stack) = Len(blockrun.last.sent.data_stack)
  /\ \A i \in 1..Len(recorded.data_stack) :
       blockrun.last.sent.data_stack[i] \subseteq recorded.data_stack[i]

\* C18: BREAK_LOOP registers at the exit target of the loop a state without
\* the nearest enclosing loop block and without every block above it, whose
\* data stack is cut down to the level of that loop block; the state it
\* returns is the state it was given.
C18_BreakLeavesLoop ==
  blockrun.last.op.name = "BREAK_LOOP" =>
    LET before == blockrun.last.before
        k == NearestLoop(before)
    IN /\ blockrun.last.target = LoopBefore.handler
       /\ blockrun.last.target = LoopBefore.op.arg
       /\ blockrun.last.sent.block_stack = SubSeq(before.block_stack, 1, k - 1)
       /\ blockrun.last.sent.data_stack =
            SubSeq(before.data_stack, 1, LoopBefore.level)
       /\ Registered
       /\ blockrun.state = before

\* A break out of a with block inside a loop, with Variables on the stack
\* above the level of the loop.
C18_Witness ==
  /\ blockrun.last.op.name = "BREAK_LOOP"
  /\ NearestLoop(blockrun.last.before) < Len(blockrun.last.before.block_stack)
  /\ Len(blockrun.last.before.data_stack) > LoopBefore.level
  /\ Len(blockrun.last.sent.data_stack) = LoopBefore.level
  /\ blockrun.states[blockrun.last.target].some

\* C19 as the specification has it: CONTINUE_LOOP registers at the retest
\* target of the loop a state without the blocks above the nearest enclosing
\* loop block, whose data stack is cut down to the level of that loop block;
\* the state it returns is the state it was given.
C19_ContinueCutsToLoopLevel ==
  blockrun.last.op.name = "CONTINUE_LOOP" =>
    LET before == blockrun.last.before
        k == NearestLoop(before)
    IN /\ blockrun.last.target = RetestTarget(LoopBefore.op.arg \div 2)
       /\ blockrun.last.sent.block_stack = SubSeq(before.block_stack, 1, k)
       /\ blockrun.last.sent.data_stack =
            SubSeq(before.data_stack, 1, LoopBefore.level)
       /\ Registered
       /\ blockrun.state = before

\* The depth CONTINUE_LOOP leaves: that of the state it was given, cut down to
\* the levels of the blocks above the loop block.
DepthAfterContinue(before) ==
  LET k == NearestLoop(before)
      depths == {Len(before.data_stack)}
                \cup {before.block_stack[i].level :
                        i \in (k + 1)..Len(before.block_stack)}
  IN CHOOSE d \in depths : \A e \in depths : d <= e

\* C19: CONTINUE_LOOP registers at the retest target of the loop a state that
\* keeps the nearest enclosing loop block and has lost every block above it;
\* its data stack is cut down to the levels of the discarded blocks, and is
\* left as it was when no block was discarded; the state CONTINUE_LOOP
\* returns is the state it was given.
C19_ContinueKeepsLoop ==
  blockrun.last.op.name = "CONTINUE_LOOP" =>
    LET before == blockrun.last.before
        k == NearestLoop(before)
    IN /\ blockrun.last.target = RetestTarget(LoopBefore.op.arg \div 2)
       /\ blockrun.last.sent.block_stack = SubSeq(before.block_stack, 1, k)
       /\ blockrun.last.sent.data_stack =
            SubSeq(before.data_stack, 1, DepthAfterContinue(before))
       /\ k = Len(before.block_stack) =>
            blockrun.last.sent.data_stack = before.data_stack
       /\ Registered
       /\ blockrun.state = before

\* A continue in a try block of a loop that has a Variable on the stack, as a
\* for loop has its iterator: the block of the try is discarded and the
\* Variable stays.
C19_Witness ==
  /\ blockrun.last.op.name = "CONTINUE_LOOP"
  /\ NearestLoop(blockrun.last.before) < Len(blockrun.last.before.block_stack)
  /\ Len(blockrun.last.sent.block_stack) = NearestLoop(blockrun.last.before)
  /\ Len(blockrun.last.sent.data_stack) > LoopBefore.level
  /\ Len(blockrun.last.sent.data_stack) < Len(blockrun.last.before.data_stack)

\* The kind of Block a setup opcode is for.
KindOf(name) ==
  CASE name = "SETUP_LOOP" -> "loop"
    [] name = "SETUP_EXCEPT" -> "setup-except"
    [] name = "SETUP_FINALLY" -> "finally"
    [] name = "SETUP_WITH" -> "with"
    [] OTHER -> ""

\* C20: SETUP_LOOP, SETUP_EXCEPT, SETUP_FINALLY and SETUP_WITH each push one
\* Block with their kind, the target of the opcode and, as level, the depth of
\* the data stack at entry; POP_BLOCK removes the Block pushed last.
C20_SetupPushesBlock ==
  LET before == blockrun.last.before
      after == blockrun.state
  IN /\ KindOf(blockrun.last.op.name) # "" =>
          /\ Len(after.block_stack) = Len(before.block_stack) + 1
          /\ SubSeq(after.block_stack, 1, Len(before.block_stack)) =
               before.block_stack
          /\ top_block(after).type = KindOf(blockrun.last.op.name)
          /\ top_block(after).handler = blockrun.last.op.arg
          /\ top_block(after).level = Len(before.data_stack)
     /\ blockrun.last.op.name = "POP_BLOCK" =>
          after.block_stack =
            SubSeq(before.block_stack, 1, Len(before.block_stack) - 1)

(***************************************************************************)
(* Claims about the opcodes that raise                                     *)
(***************************************************************************)

\* C21: when the handler of an opcode re-raises an active exception, ending
\* with the reason 'reraise', the state run_instruction returns to run_frame
\* has the reason 'reraise' too, distinct from 'exception'.
C21_ReraiseStaysDistinct ==
  raising.last.set = "reraise" => raising.state.why = "reraise"


(***************************************************************************)
(* Claims about the construction of classes                                *)
(***************************************************************************)

\* make_class got past the class body: class_dict_var has one binding.
ReachedBases == mkclass.steps > 0 /\ Len(mkclass.class_dict_var) = 1

\* The data of a Variable of make_class.
DataOf(var) == {var[i] : i \in 1..Len(var)}

\* What a binding of a base contributes: the base class of an annotation
\* container, each member of a union, otherwise the data itself.
Contribution(b) ==
  IF b.tag = "AnnotationContainer" THEN {b.base_cls}
  ELSE IF b.tag = "Union" THEN DataOf(b.options)
  ELSE {b}

\* A base holds no class and no wildcard value.
HoldsNoClass(base) ==
  \A t \in DataOf(base) :
    /\ t.tag \notin {"PyTDClass", "InterpreterClass", "ParameterizedClass",
                     "TupleClass", "Callable"}
    /\ t.tag \notin {"Unsolvable", "Unknown", "Empty"}

BaseClassErrors ==
  {k \in 1..Len(mkclass.out.errors) :
     mkclass.out.errors[k].error = "base_class_error"}

\* C28: once make_class has the class body, every base it builds the class
\* from holds what its bindings contribute, each once: a union counts as its
\* members listed one by one, an annotation container as its base class; a
\* base that then holds no class and no wildcard value is reported once as a
\* base class error, and nothing else is; no bases at all become the one
\* base of the old-style class type.
C28_BasesAreFlattened ==
  ReachedBases =>
    LET bases == mkclass.bases
        new == mkclass.out.bases
        bad == {i \in 1..Len(new) : HoldsNoClass(new[i])}
    IN /\ bases # <<>> =>
            /\ Len(new) = Len(bases)
            /\ \A i \in 1..Len(bases) :
                 /\ DataOf(new[i]) =
                      UNION {Contribution(b) : b \in DataOf(bases[i])}
                 /\ Len(new[i]) = Cardinality(DataOf(new[i]))
       /\ bases = <<>> => new = << <<oldstyleclass_type>> >>
       /\ Cardinality(BaseClassErrors) = Cardinality(bad)
       /\ \A i \in bad :
            \E k \in BaseClassErrors : mkclass.out.errors[k].base = new[i]
       /\ SubSeq(errorlog, mkclass.log_from + 1,
                 mkclass.log_from + Len(mkclass.out.errors))
            = mkclass.out.errors

\* make_class was given a base that holds the class A and the union of A and
\* B, which became the base of A and B, and a base that holds only the None
\* instance, which was reported.
C28_Witness ==
  /\ ReachedBases
  /\ Len(mkclass.bases) = 2
  /\ \E b \in DataOf(mkclass.bases[1]) : b.tag = "Union"
  /\ Len(mkclass.bases[1]) = 2
  /\ Len(mkclass.out.bases[1]) = 2
  /\ mkclass.bases[2] = <<none>>
  /\ Cardinality(BaseClassErrors) = 1

\* make_class was given no bases.
C28_WitnessOldStyle ==
  ReachedBases /\ mkclass.bases = <<>> /\ mkclass.out.built

\* All bindings of a metaclass Variable are __builtin__.type.
OnlyBuiltinType(var) ==
  \A d \in DataOf(var.data) : d.full_name = "__builtin__.type"

\* The member __metaclass__ of the class body, None when it has none.
BodyMetaclass == mkclass.class_dict_var[1].members_metaclass

\* C29: the metaclass make_class constructs the class with is the explicit
\* metaclass Variable when there is one, otherwise the member __metaclass__ of
\* the class body when it has one, and in both cases None when every binding
\* of that Variable is __builtin__.type.
C29_MetaclassResolution ==
  (mkclass.steps > 0 /\ mkclass.out.built) =>
    LET resolved == IF ~mkclass.cls_var.none THEN mkclass.cls_var
                    ELSE BodyMetaclass
    IN mkclass.out.cls =
         IF resolved.none \/ OnlyBuiltinType(resolved) THEN NoVariable
         ELSE resolved

\* A class was built without an explicit metaclass from a body whose
\* __metaclass__ holds type and M, and with that Variable as metaclass.
C29_Witness ==
  /\ mkclass.steps > 0 /\ mkclass.out.built
  /\ mkclass.cls_var.none
  /\ Len(BodyMetaclass.data) = 2
  /\ mkclass.out.cls = BodyMetaclass

\* A class was built with the explicit metaclass type, from a body whose
\* __metaclass__ is M: no metaclass was passed.
C29_WitnessType ==
  /\ mkclass.steps > 0 /\ mkclass.out.built
  /\ ~mkclass.cls_var.none /\ OnlyBuiltinType(mkclass.cls_var)
  /\ ~BodyMetaclass.none /\ ~OnlyBuiltinType(BodyMetaclass)
  /\ mkclass.out.cls = NoVariable

\* The bases make_class builds the class from, one after the other.
AllBases == concat_lists(mkclass.out.bases)

\* The bases name the class A before a class B that is derived from A: no
\* linearization keeps both orders.
ConflictingBases ==
  \E p \in 1..Len(AllBases) : \E q \in (p + 1)..Len(AllBases) :
    /\ AllBases[p].tag = "PyTDClass" /\ AllBases[p].pyval = "A"
    /\ AllBases[q].tag = "PyTDClass" /\ AllBases[q].pyval = "B"
    /\ parents["B"] = <<"A">>

\* The MRO diagnostics of a log that name the class name.
MroErrorsNaming(log, name) ==
  {k \in 1..Len(log) : log[k].error = "mro_error" /\ log[k].name = name}

\* The linearizations of a diagnostic are in conflict: each starts with a
\* class that another one names later, and they put A before B and B before
\* A.
NamesTheConflict(entry) ==
  /\ entry.mro_seqs # <<>>
  /\ \A s \in DataOf(entry.mro_seqs) :
       /\ s # <<>>
       /\ \E t \in DataOf(entry.mro_seqs) :
            \E k \in 2..Len(t) : t[k] = s[1]
  /\ \E s \in DataOf(entry.mro_seqs) :
       \E j \in 1..Len(s) : \E k \in (j + 1)..Len(s) :
         s[j] = "A" /\ s[k] = "B"
  /\ \E s \in DataOf(entry.mro_seqs) :
       \E j \in 1..Len(s) : \E k \in (j + 1)..Len(s) :
         s[j] = "B" /\ s[k] = "A"

\* C30: when the bases of the class X that make_class builds have no
\* linearization, make_class reports one MRO error that names X and the
\* linearizations in conflict and returns a Variable of the unsolvable value;
\* when the declared class C has none, its conversion returns the unsolvable
\* value and one MRO error that names C and the linearizations is in the log,
\* however often C is converted; and whatever it is called with, make_class
\* returns a Variable with a binding.
C30_MroErrorGivesUnsolvable ==
  /\ mkclass.steps > 0 =>
       /\ Len(mkclass.out.var) >= 1
       /\ (mkclass.out.built /\ ConflictingBases) =>
            /\ Cardinality(MroErrorsNaming(mkclass.out.errors, "X")) = 1
            /\ \A k \in MroErrorsNaming(mkclass.out.errors, "X") :
                 NamesTheConflict(mkclass.out.errors[k])
            /\ mkclass.out.var = <<unsolvable>>
       /\ SubSeq(errorlog, mkclass.log_from + 1,
                 mkclass.log_from + Len(mkclass.out.errors))
            = mkclass.out.errors
       /\ Cardinality(MroErrorsNaming(mkclass.out.errors, "X")) <= 1
       /\ MroErrorsNaming(mkclass.out.errors, "X") # {} =>
            mkclass.out.var = <<unsolvable>>
  /\ \A i \in ConversionsOf(Py("Class", "C", 0)) :
       parents["B"] = <<"A">> =>
         /\ history[i].value = unsolvable
         /\ Cardinality(MroErrorsNaming(errorlog, "C")) = 1
         /\ \A k \in MroErrorsNaming(errorlog, "C") :
              NamesTheConflict(errorlog[k])

\* make_class built X from the bases A and B, B derived from A, after the
\* conversion of the declared class C(A, B) had failed in the same way.
C30_Witness ==
  /\ mkclass.steps > 0 /\ mkclass.out.built /\ ConflictingBases
  /\ \E i \in ConversionsOf(Py("Class", "C", 0)) :
       history[i].value = unsolvable
  /\ MroErrorsNaming(errorlog, "X") # {}
  /\ MroErrorsNaming(errorlog, "C") # {}

(***************************************************************************)
(* Claims about function type comments                                     *)
(***************************************************************************)

\* Line n of the module holds a type comment and nothing else.
BareComment(n) ==
  /\ ~fncomment.type_comments[n].none
  /\ fncomment.type_comments[n].src = ""
  /\ fncomment.type_comments[n].comment # <<>>

\* The line of the type comment of the function: the first line after the
\* MAKE_FUNCTION opcode and before the function's first opcode that holds a
\* comment only; 0 when there is none.
CommentLine ==
  IF ~fncomment.op.same_file \/ fncomment.op.line # 1 THEN 0
  ELSE IF fncomment.first_line >= 3 /\ BareComment(2) THEN 2
  ELSE IF fncomment.first_line >= 4 /\ BareComment(3) THEN 3
  ELSE 0

\* What the last _process_function_type_comment call reported.
CommentDiagnostics ==
  SubSeq(errorlog, fncomment.log_from + 1, Len(errorlog))

CommentChangedNothing ==
  /\ fncomment.out.annotations = fncomment.annotations
  /\ fncomment.out.late_annotations = fncomment.late_annotations

Annotated == fncomment.annotations # {} \/ fncomment.late_annotations # {}

\* C31: when the function that has a type comment also has annotations or
\* late annotations, _process_function_type_comment reports one redundant
\* type comment and leaves both dictionaries as they were; when the function
\* has none and the comment is not of the form (args) -> ret, it reports one
\* invalid type comment and leaves both dictionaries as they were.
C31_CommentDiagnostics ==
  (fncomment.steps > 0 /\ CommentLine # 0) =>
    LET comment == fncomment.type_comments[CommentLine].comment IN
    /\ Annotated =>
         /\ CommentDiagnostics =
              <<[error |-> "redundant_function_type_comment",
                 lineno |-> CommentLine]>>
         /\ CommentChangedNothing
    /\ (~Annotated /\ comment \notin WellFormedComments) =>
         /\ CommentDiagnostics =
              <<[error |-> "invalid_function_type_comment",
                 lineno |-> CommentLine, comment |-> comment]>>
         /\ CommentChangedNothing

\* A function with a late annotation has a type comment on line 3, after a
\* line of code with a comment of its own.
C31_Witness ==
  /\ fncomment.steps > 0 /\ CommentLine = 3
  /\ fncomment.late_annotations # {}
  /\ ~fncomment.type_comments[2].none
  /\ Len(errorlog) = 1

\* A function without annotations has the type comment "int -> str".
C31_WitnessInvalid ==
  /\ fncomment.steps > 0 /\ CommentLine # 0 /\ ~Annotated
  /\ fncomment.type_comments[CommentLine].comment = CommentNoParens
  /\ Len(errorlog) = 1

\* A function without annotations has a type comment of the form, which
\* became its late annotations.
C31_WitnessAccepted ==
  /\ fncomment.steps > 0 /\ CommentLine # 0 /\ ~Annotated
  /\ fncomment.type_comments[CommentLine].comment = CommentNested
  /\ \E e \in fncomment.out.late_annotations :
       e.name = MULTI_ARG_ANNOTATION /\ e.value.expr = <<"(", "int", ")">>
  /\ \E e \in fncomment.out.late_annotations :
       e.name = "return" /\ e.value.expr = <<"int">>

(***************************************************************************)
(* Claims about functions with late annotations                            *)
(***************************************************************************)

\* The functions created so far with late annotations (or without), in the
\* order of their creation.
CreatedFunctions(with_late) ==
  LET made == SelectSeq(lateq.created,
                        LAMBDA c : (c.late_annotations # {}) = with_late)
  IN [i \in 1..Len(made) |-> made[i].val]

\* C32: at every moment the queue holds the functions created with late
\* annotations, in the order of their creation, and no other function; the
\* functions created without have had their type parameters counted;
\* run_program evaluates late annotations only once the bytecode has
\* finished, for the queued functions in their order, each once, at the node
\* the bytecode ended on, and has evaluated all of them when it returns.
C32_LateAnnotationsAfterBytecode ==
  /\ lateq.functions_with_late_annotations = CreatedFunctions(TRUE)
  /\ lateq.checked = CreatedFunctions(FALSE)
  /\ lateq.evaluated # <<>> => lateq.phase \in {"postprocessing", "returned"}
  /\ Len(lateq.evaluated) <= Len(lateq.functions_with_late_annotations)
  /\ \A k \in 1..Len(lateq.evaluated) :
       /\ lateq.evaluated[k].func = lateq.functions_with_late_annotations[k]
       /\ lateq.evaluated[k].node = lateq.final_node
       /\ lateq.final_node = lateq.node
  /\ lateq.phase = "returned" =>
       Len(lateq.evaluated) = Len(lateq.functions_with_late_annotations)

\* run_program returned after a module that created a function without late
\* annotations and two functions with late annotations, on different nodes.
C32_Witness ==
  /\ lateq.phase = "returned"
  /\ Len(lateq.checked) = 1
  /\ Len(lateq.evaluated) = 2
  /\ lateq.final_node > 1
  /\ \E i \in 1..Len(lateq.created) :
       lateq.created[i].node < lateq.final_node

(***************************************************************************)
(* Claims about calling a Variable of functions                            *)
(***************************************************************************)

\* The bindings of funcu whose call returned, and the ones whose call raised.
Succeeded == {i \in 1..Len(callfn.funcu) : callfn.funcu[i].error.none}

Failed == {i \in 1..Len(callfn.funcu) : ~callfn.funcu[i].error.none}

\* What the last call_function call reported.
CallDiagnostics == SubSeq(errorlog, callfn.log_from + 1, Len(errorlog))

\* C33: call_function returns a Variable with a binding or raises.  When the
\* call of a binding of funcu returns, nothing is reported and nothing is
\* raised, whatever the calls of the other bindings raised; when every call
\* raises and fallback_to_unsolvable is true, one diagnostic is reported and
\* the result is a Variable of the unsolvable value at the node of the call;
\* when every call raises and fallback_to_unsolvable is false, an error of
\* the highest rank among the ones raised is raised and nothing is reported.
C33_CallFunctionOutcome ==
  callfn.steps > 0 =>
    LET out == callfn.out IN
    /\ out.raised.none => out.result # {}
    /\ Succeeded # {} =>
         /\ out.raised.none
         /\ CallDiagnostics = <<>>
         /\ \A i \in Succeeded : callfn.funcu[i].data \subseteq out.result
    /\ (Succeeded = {} /\ callfn.fallback_to_unsolvable) =>
         /\ out.raised.none
         /\ Len(CallDiagnostics) = 1
         /\ out.result = {"unsolvable"}
         /\ out.node = CallNode
    /\ (Succeeded = {} /\ ~callfn.fallback_to_unsolvable) =>
         /\ ~out.raised.none
         /\ \E i \in Failed : callfn.funcu[i].error = out.raised
         /\ \A i \in Failed : callfn.funcu[i].error.rank <= out.raised.rank
         /\ CallDiagnostics = <<>>

\* The call of one function raised an error, the call of another returned an
\* int: nothing was reported.
C33_Witness ==
  /\ callfn.steps > 0
  /\ Failed # {} /\ Succeeded # {}
  /\ callfn.out.result = {"int"}
  /\ errorlog = <<>>

\* Three calls raised errors of the ranks 2, 3 and 1 in this order and
\* call_function, which was not to fall back, raised the second.
C33_WitnessRaised ==
  /\ callfn.steps > 0 /\ ~callfn.fallback_to_unsolvable
  /\ Len(callfn.funcu) = 3 /\ Succeeded = {}
  /\ callfn.funcu[1].error.rank = 2
  /\ callfn.funcu[3].error.rank = 1
  /\ callfn.out.raised.rank = 3

\* Every call raised and call_function fell back to the unsolvable value.
C33_WitnessFallback ==
  /\ callfn.steps > 0 /\ callfn.fallback_to_unsolvable
  /\ Len(callfn.funcu) = 2 /\ Succeeded = {}
  /\ Len(errorlog) = 1

(***************************************************************************)
(* Claims about the order in which run_frame visits blocks                 *)
(***************************************************************************)

\* Whether run_frame's position in the frame g is after its position in f.
Advanced(f, g) == g.blk > f.blk \/ (g.blk = f.blk /\ g.ip > f.ip)

\* The frame at depth i of the call stack is the same before and after the
\* step and something of it changed.
FrameStepped(i) ==
  /\ i <= Len(frames) /\ i <= Len(frames')
  /\ frames'[i].code = frames[i].code
  /\ frames'[i] # frames[i]

\* The frame at depth i is suspended in a call: only the local state of the
\* calling instruction was noted.
Suspended(i) ==
  /\ Len(frames') = Len(frames) + 1
  /\ frames'[i] = [frames[i] EXCEPT !.state = frames'[i].state]

\* C35: run_frame visits the blocks of the code once each in their order:
\* whenever a step changes a frame and no exception escapes, the frame's
\* position (block, instruction) is strictly later than before and at most
\* one past the last block, the block interpreted is one that was neither
\* interpreted to its end nor skipped before, and no block before the position
\* is interpreted again, whatever states jumps registered there.  The
\* position being bounded, run_frame terminates.
C35_BlocksVisitedOnceInOrder ==
  [][\A i \in 1..Len(frames) :
       (FrameStepped(i) /\ raised' = "") =>
         LET f == frames[i]
             g == frames'[i]
         IN \/ Suspended(i)
            \/ /\ Advanced(f, g)
               /\ g.blk <= NumBlocks(g) + 1
               /\ f.blk \notin f.skipped
               /\ f.ip = 1 => f.blk \notin f.ran
               /\ g.ran \subseteq f.ran \cup {f.blk}
               /\ g.skipped \subseteq f.skipped \cup {f.blk}
               /\ \A b \in g.ran \cup g.skipped : b <= f.blk]_vars

\* run_frame is past the last block of a code whose first block was
\* interpreted and then received the state of a backward jump.
C35_Witness ==
  /\ Running
  /\ Top.blk > NumBlocks(Top)
  /\ 1 \in Top.ran
  /\ Len(Top.arrivals[1]) >= 2
  /\ \E b \in 2..NumBlocks(Top) :
       b \in Top.ran /\ \E i \in 1..Len(codes[Top.code][b]) :
         codes[Top.code][b][i] = Op("JUMP_ABSOLUTE", 1)

(***************************************************************************)
(* Claims about the call stack                                             *)
(***************************************************************************)

\* The codes of the frames on the call stack, outermost first.
FrameCodes == [i \in 1..Len(frames) |-> frames[i].code]

\* Every run_frame call in progress has its frame on the call stack, above
\* the frames that were there when it was called.
CallsMatchFrames ==
  /\ Len(run_frame_calls) = Len(frames)
  /\ \A i \in 1..Len(frames) :
       /\ run_frame_calls[i].frame = frames[i].code
       /\ run_frame_calls[i].before = SubSeq(FrameCodes, 1, i - 1)

\* A run_frame call returns in this step.
RunFrameReturns ==
  /\ raised = "" /\ raised' = ""
  /\ Len(run_frame_calls') < Len(run_frame_calls)

\* C36: vm.frame is the top of the call stack vm.frames and None exactly
\* when the stack is empty.  While no exception propagates, the frame the
\* innermost run_frame call will pop is the top of the stack, so the assertion
\* of pop_frame holds; when a run_frame call returns, the stack is what it was
\* when it was called; and when the run_frame call of run_bytecode has
\* returned, no frame is left on the stack.
C36_FrameStackBalanced ==
  /\ [](frame = IF frames = <<>> THEN 0 ELSE Top.code)
  /\ [](raised = "" => CallsMatchFrames)
  /\ []((raised = "" /\ returned.code # 0 /\ run_frame_calls = <<>>) =>
          frames = <<>>)
  /\ [][RunFrameReturns =>
          /\ ThisCall.frame = Top.code
          /\ [i \in 1..Len(frames') |-> frames'[i].code] = ThisCall.before
          /\ run_frame_calls' = OuterCalls]_vars

\* The run_frame call of a function has returned to the module's frame, which
\* is the only frame on the stack and the one vm.frame refers to.
C36_Witness ==
  /\ Running
  /\ returned.code = 2 /\ returned.depth = 2
  /\ Len(frames) = 1 /\ frame = 1

\* run_bytecode has returned after a call of a function that called another:
\* no frame is left.
C36_WitnessFinished ==
  /\ raised = "" /\ returned.code = 1
  /\ frames = <<>> /\ frame = 0 /\ run_frame_calls = <<>>
  /\ Calls(codes[1], 2)

C37_WitnessRunFrame ==
  /\ Running
  /\ Len(frames) = 2
  /\ ThisCall.via = "run_frame"
  /\ last.why = "recursion"

(***************************************************************************)
(* Claims about the conditional jumps                                      *)
(***************************************************************************)

\* The flags _jump_if is called with by the opcode of the last jump.
JumpPops == jumping.op.name \in {"POP_JUMP_IF_TRUE", "POP_JUMP_IF_FALSE"}

JumpOrPops ==
  jumping.op.name \in {"JUMP_IF_TRUE_OR_POP", "JUMP_IF_FALSE_OR_POP"}

JumpsIfTrue ==
  jumping.op.name \in {"JUMP_IF_TRUE_OR_POP", "JUMP_IF_TRUE",
                       "POP_JUMP_IF_TRUE"}

\* No binding of the value tested is compatible with the truth value.
Unsatisfiable(truth) ==
  \A v \in top(jumping.state) :
    ~(IF truth THEN CanBeTrue(v) ELSE CanBeFalse(v))

\* The depth of the data stack the jump found.
JumpDepth == Len(jumping.state.data_stack)

\* C38: a conditional jump on a value at depth d that raises nothing hands
\* store_jump a state of depth d-1 when it pops and of depth d otherwise,
\* and what is recorded at the target then has this depth; it returns a
\* state of depth d-1 when it pops or or-pops and of depth d otherwise.  When
\* no binding of the value is compatible with the jump, nothing is registered
\* and the recorded state of the target is what it was; the state returned
\* has the reason 'unsatisfiable' exactly when no binding is compatible with
\* not jumping.
C38_JumpIfDepths ==
  (jumping.steps > 0 /\ JumpDepth >= 1 /\ jumping.out.exn = "") =>
    LET out == jumping.out
        d == JumpDepth
        kept == IF JumpPops THEN d - 1 ELSE d
    IN /\ out.sent.some =>
            /\ Len(out.sent.data_stack) = kept
            /\ out.states[1].some
            /\ Len(out.states[1].data_stack) = kept
       /\ Len(out.state.data_stack) =
            IF JumpPops \/ JumpOrPops THEN d - 1 ELSE d
       /\ Unsatisfiable(JumpsIfTrue) =>
            /\ ~out.sent.some
            /\ out.states[1] = jumping.prior
       /\ ~Unsatisfiable(JumpsIfTrue) => out.sent.some
       /\ out.state.why = "unsatisfiable" <=> Unsatisfiable(~JumpsIfTrue)
       /\ out.state.why \in {"", "unsatisfiable"}

\* JUMP_IF_TRUE_OR_POP on an int or None above another value: the target
\* gets both values, the state returned the lower one.
C38_Witness ==
  /\ jumping.steps > 0 /\ jumping.out.exn = ""
  /\ jumping.op.name = "JUMP_IF_TRUE_OR_POP"
  /\ JumpDepth = 2 /\ top(jumping.state) = {"int", "None"}
  /\ Len(jumping.out.sent.data_stack) = 2
  /\ Len(jumping.out.state.data_stack) = 1
  /\ jumping.out.state.why = ""

\* POP_JUMP_IF_TRUE on None: nothing is registered at the target.
C38_WitnessNoJump ==
  /\ jumping.steps > 0 /\ jumping.out.exn = ""
  /\ jumping.op.name = "POP_JUMP_IF_TRUE"
  /\ top(jumping.state) = {"None"}
  /\ ~jumping.out.sent.some /\ ~jumping.prior.some
  /\ ~jumping.out.states[1].some

\* JUMP_IF_FALSE on a Variable without bindings: the state returned has the
\* reason 'unsatisfiable' and nothing is registered.
C38_WitnessUnsatisfiable ==
  /\ jumping.steps > 0 /\ jumping.out.exn = ""
  /\ jumping.op.name = "JUMP_IF_FALSE"
  /\ JumpDepth = 1 /\ top(jumping.state) = {}
  /\ jumping.out.state.why = "unsatisfiable"
  /\ Len(jumping.out.state.data_stack) = 1

(***************************************************************************)
(* Claims about YIELD_VALUE and RETURN_VALUE                               *)
(***************************************************************************)

\* C39: a YIELD_VALUE that raises nothing adds the bindings of the value on
\* top of the stack to the frame's yield Variable, leaves the return Variable
\* as it is and returns a state with the reason 'yield'; a RETURN_VALUE that
\* raises nothing adds bindings to the return Variable (those of the value,
\* or the instance of the annotated return type), leaves the yield Variable
\* as it is and returns a state with the reason 'return'; neither removes a
\* binding of either Variable, and one that raises changes neither.
C39_YieldAndReturnVariables ==
  yielding.steps > 0 =>
    LET f == yielding.before
        g == yielding.out.frame
        ok == yielding.out.exn = ""
    IN /\ f.return_variable \subseteq g.return_variable
       /\ f.yield_variable \subseteq g.yield_variable
       /\ ~ok => g = f
       /\ (ok /\ yielding.op = "YIELD_VALUE") =>
            /\ g.yield_variable = f.yield_variable \cup top(yielding.state)
            /\ g.return_variable = f.return_variable
            /\ yielding.out.state.why = "yield"
       /\ (ok /\ yielding.op = "RETURN_VALUE") =>
            /\ g.return_variable =
                 f.return_variable
                   \cup (IF f.allowed_returns = NoAnnotation
                         THEN top(yielding.state)
                         ELSE {f.allowed_returns})
            /\ g.yield_variable = f.yield_variable
            /\ yielding.out.state.why = "return"

\* A generator yielded an int and then a str or None: the yield Variable has
\* the three bindings and the return Variable none.
C39_Witness ==
  /\ yielding.steps = 2 /\ yielding.op = "YIELD_VALUE"
  /\ yielding.out.exn = ""
  /\ yielding.before.yield_variable = {"int"}
  /\ yielding.out.frame.yield_variable = {"int", "str", "None"}
  /\ yielding.out.frame.return_variable = {}

\* A generator yielded a str and then returned None: each Variable has the
\* one binding.
C39_WitnessReturn ==
  /\ yielding.steps = 2 /\ yielding.op = "RETURN_VALUE"
  /\ yielding.out.exn = ""
  /\ yielding.before.yield_variable = {"str"}
  /\ yielding.out.frame.yield_variable = {"str"}
  /\ yielding.out.frame.return_variable = {"None"}
  /\ yielding.out.state.why = "return"

(***************************************************************************)
(* Claims about the creation of Unknown values                             *)
(***************************************************************************)

\* The requests made so far.
Requests == 1..Len(unknowns.log)

\* The request got the unsolvable value, not an Unknown.
GotUnsolvable(i) == unknowns.log[i].value = unsolvable

\* The request was made with an action, a frame running, of a vm that caches
\* unknowns.
Cacheable(i) ==
  /\ unknowns.cache_unknowns
  /\ unknowns.log[i].action # NoAction
  /\ unknowns.log[i].stack # <<>>

\* The two requests were made at the same opcode with the same action.
SamePoint(i, j) ==
  /\ unknowns.log[i].opcode = unknowns.log[j].opcode
  /\ unknowns.log[i].action = unknowns.log[j].action

\* C40: a request made through create_new_unknown gets the unsolvable value
\* exactly when the vm does not generate unknowns and force is false.  Of two
\* requests that got an Unknown, both made with an action and a frame running
\* of a vm that caches unknowns, at the same opcode and with the same action,
\* the second got the instance the first got, whatever the call stacks; any
\* other two requests got two different instances.
C40_UnknownPerOpcodeAndAction ==
  /\ \A i \in Requests :
       GotUnsolvable(i) <=>
         /\ ~unknowns.log[i].direct
         /\ ~unknowns.generate_unknowns
         /\ ~unknowns.log[i].force
  /\ \A i \in Requests : \A j \in Requests :
       (i < j /\ ~GotUnsolvable(i) /\ ~GotUnsolvable(j)) =>
         (unknowns.log[i].value = unknowns.log[j].value
            <=> (Cacheable(i) /\ Cacheable(j) /\ SamePoint(i, j)))

\* Two requests at the same opcode with the same action, made under
\* different call stacks with a request without an action in between, got
\* the same Unknown.
C40_Witness ==
  /\ Len(unknowns.log) = 3
  /\ unknowns.log[1].stack = <<1>> /\ unknowns.log[3].stack = <<2, 1>>
  /\ unknowns.log[2].action = NoAction
  /\ ~GotUnsolvable(1) /\ ~GotUnsolvable(2)
  /\ unknowns.log[1].value = unknowns.log[3].value
  /\ unknowns.log[2].value # unknowns.log[1].value

\* Of a vm that does not cache unknowns, two requests at the same opcode with
\* the same action got different Unknowns.
C40_WitnessFresh ==
  /\ Len(unknowns.log) = 2 /\ ~unknowns.cache_unknowns
  /\ unknowns.log[1].stack # <<>> /\ unknowns.log[1].action # NoAction
  /\ unknowns.log[1].stack = unknowns.log[2].stack /\ SamePoint(1, 2)
  /\ ~GotUnsolvable(1) /\ ~GotUnsolvable(2)
  /\ unknowns.log[1].value # unknowns.log[2].value

\* Of a vm that does not generate unknowns, a request without force got the
\* unsolvable value and one with force an Unknown.
C40_WitnessUnsolvable ==
  /\ Len(unknowns.log) = 2 /\ ~unknowns.generate_unknowns
  /\ ~unknowns.log[1].force /\ GotUnsolvable(1)
  /\ unknowns.log[2].force /\ ~unknowns.log[2].direct /\ ~GotUnsolvable(2)

====
